---- MODULE Spec2Model ----
(***************************************************************************)
(* Model of slack_translate_bot: the Slack Events endpoint that translates *)
(* messages EN -> DE and posts the result as a thread reply.               *)
(*                                                                         *)
(*   slack_verify.py  verify_slack_request     -> VerifySlackRequest       *)
(*   main.py          _processed, _already_processed -> processed, ...     *)
(*   main.py          slack_events             -> Arrive / Handle          *)
(*                                                                         *)
(* Python values of different types are modelled as tagged tuples so that  *)
(* they stay comparable: None is <<"None">>, a str is <<"str", ...>>.      *)
(***************************************************************************)
EXTENDS Integers, Sequences, FiniteSets, TLC

VARIABLES
    processed,      \* main._processed: insertion-ordered keys (OrderedDict)
    bot_user_id,    \* main._bot_user_id: the memoized bot user id, or None
    config,         \* the configuration the process started with
    inflight,       \* per flow: the request whose body is being awaited, or Idle
    delivered,      \* number of requests received so far
    last,           \* the request handled last and its outcome
    stats,          \* per ledger key: what the requests using it did so far
    evicted,        \* the keys the ledger has evicted so far
    ledgerLog,      \* history of _already_processed calls (ledger specification)
    verifyIn,       \* arguments of one verify_slack_request call
    verifyOut,      \* its outcome, "pending" before the call
    resolveIn,      \* arguments and remote answers of one _fetch_message call
    resolveOut,     \* whether the call was made, and what it returned
    shapeIn,        \* the text and phrase list given to the content shaper
    shapeOut        \* which shaper function was called, and what it returned

ledgerVars == <<ledgerLog>>
verifyVars == <<verifyIn, verifyOut>>
resolveVars == <<resolveIn, resolveOut>>
shapeVars == <<shapeIn, shapeOut>>
routerVars == <<bot_user_id, config, inflight, delivered, last, stats, evicted>>
vars == <<processed, routerVars, ledgerVars, verifyVars, resolveVars, shapeVars>>

None == <<"None">>

Range(s) == {s[i] : i \in 1..Len(s)}

(***************************************************************************)
(* Bounds of the model.                                                    *)
(***************************************************************************)
\* main._MAX_IDEMPOTENCY_SIZE is 10_000 (main.py:92); the model scales the
\* capacity down so that overflow and eviction happen within the bounds.
MAX_IDEMPOTENCY_SIZE == 2
\* number of _already_processed calls explored by the ledger specification
MaxLedgerOps == 5
\* number of webhook requests explored by the router specifications
MaxDeliveries == 3
\* requests received in the reaction specification
MaxReactionDeliveries == 2
\* requests received in the edit specification
MaxEditDeliveries == 4
\* how many new-message requests the trigger specification delivers
MaxTriggerDeliveries == 2
\* how many tokens the texts given to the content shaper are made of
MaxTokens == 4

(***************************************************************************)
(* Dedup ledger: main.py:189-196                                           *)
(***************************************************************************)
CHANNELS == {"C1", "C2"}
TIMESTAMPS == {"111.000", "111.001"}
\* key = (channel_id, ts)
LedgerKeys == CHANNELS \X TIMESTAMPS

\* `key in _processed`
IsProcessed(ledger, key) == key \in Range(ledger)

\* `while len(_processed) > _MAX_IDEMPOTENCY_SIZE: _processed.popitem(last=False)`
RECURSIVE Evict(_)
Evict(ledger) ==
    IF Len(ledger) > MAX_IDEMPOTENCY_SIZE THEN Evict(Tail(ledger)) ELSE ledger

\* mutant: the eviction loop is missing
MarkProcessedNoEvict(ledger, key) ==
    IF IsProcessed(ledger, key) THEN ledger ELSE Append(ledger, key)

\* mutant: the key is never recorded
MarkProcessedNoInsert(ledger, key) == ledger

\* mutant: a hit refreshes the key (LRU, move_to_end) instead of leaving it
MarkProcessedRefresh(ledger, key) ==
    IF IsProcessed(ledger, key)
    THEN Append(SelectSeq(ledger, LAMBDA k: k # key), key)
    ELSE Evict(Append(ledger, key))

\* the ledger after _already_processed(channel_id, ts): a hit returns before
\* any write; a miss appends the key and evicts oldest-first down to capacity
MarkProcessed(ledger, key) ==
    IF IsProcessed(ledger, key) THEN ledger ELSE Evict(Append(ledger, key))

\* one call of _already_processed: returns IsProcessed, leaves MarkProcessed
AlreadyProcessed(key) ==
    /\ Len(ledgerLog) < MaxLedgerOps
    /\ processed' = MarkProcessed(processed, key)
    /\ ledgerLog' = Append(ledgerLog,
            [key |-> key, seen |-> IsProcessed(processed, key),
             before |-> processed, after |-> MarkProcessed(processed, key)])
    /\ UNCHANGED <<routerVars, verifyVars, resolveVars, shapeVars>>

(***************************************************************************)
(* Request authenticator: slack_verify.py:11-36                            *)
(***************************************************************************)
\* config.SLACK_REQUEST_MAX_AGE_SECONDS default
SLACK_REQUEST_MAX_AGE_SECONDS == 300

Abs(x) == IF x < 0 THEN -x ELSE x

\* Header strings.  A timestamp header that int() accepts is
\* <<"int", n, form>>: int() strips whitespace and accepts a sign, so several
\* strings ("1000", " 1000") parse to the same n; <<"huge">> is a digit string
\* int() accepts but whose value does not fit a float.
SecretValues == {"", "s1", "s2"}
BodyValues == {"b1", "b2"}
TsHeaderInts == {<<"int", 1000, "plain">>, <<"int", 1000, "padded">>}
\* a timestamp outside the window when now = 1000
StaleTs == <<"int", 600, "plain">>
TsHeaderValues == {None, <<"str", "">>, <<"str", "abc">>, <<"huge">>} \cup TsHeaderInts
NowValues == {699, 700, 1000, 1300, 1301}
MaxAgeArgs == {None, <<"int", 0>>}

\* "v0=" + hmac.new(secret, "v0:" + timestamp + ":" + body, sha256).hexdigest()
\* HMAC-SHA256 as an injective function of (secret, timestamp string, body)
ComputedSignature(secret, timestamp, body) == <<"sig", secret, timestamp, body>>

SigHeaderValues ==
    {None, <<"str", "">>, <<"str", "v0=garbage">>, <<"nonascii">>}
    \cup {ComputedSignature(s, t, b) : s \in {"s1", "s2"}, t \in TsHeaderInts, b \in BodyValues}

\* Python truthiness of an Optional[str] header
Truthy(h) == h # None /\ h # <<"str", "">>

\* int(timestamp) succeeds
ParsesAsInt(t) == t[1] \in {"int", "huge"}

\* mutant: the age test lacks abs(), so a timestamp in the future always passes
VerifyNoAbs(body, signature, timestamp, max_age_seconds, secret, now) ==
    IF secret = "" \/ ~Truthy(signature) \/ ~Truthy(timestamp) THEN "False"
    ELSE IF ~ParsesAsInt(timestamp) THEN "False"
    ELSE IF timestamp[1] = "huge" THEN "OverflowError"
    ELSE LET max_age == IF max_age_seconds # None THEN max_age_seconds[2]
                        ELSE SLACK_REQUEST_MAX_AGE_SECONDS
         IN  IF now - timestamp[2] > max_age THEN "False"
             ELSE IF signature = <<"nonascii">> THEN "TypeError"
             ELSE IF ComputedSignature(secret, timestamp, body) = signature
                  THEN "True" ELSE "False"

\* mutant: the body is left out of the signed base string
VerifyIgnoresBody(body, signature, timestamp, max_age_seconds, secret, now) ==
    IF secret = "" \/ ~Truthy(signature) \/ ~Truthy(timestamp) THEN "False"
    ELSE IF ~ParsesAsInt(timestamp) THEN "False"
    ELSE IF timestamp[1] = "huge" THEN "OverflowError"
    ELSE LET max_age == IF max_age_seconds # None THEN max_age_seconds[2]
                        ELSE SLACK_REQUEST_MAX_AGE_SECONDS
         IN  IF Abs(now - timestamp[2]) > max_age THEN "False"
             ELSE IF signature = <<"nonascii">> THEN "TypeError"
             ELSE IF signature[1] = "sig" /\ signature[2] = secret
                     /\ signature[3] = timestamp
                  THEN "True" ELSE "False"

\* verify_slack_request(body, signature, timestamp, max_age_seconds) with
\* config.SLACK_SIGNING_SECRET = secret and time.time() = now.  The outcome is
\* "True", "False", or the exception the call raises: time.time() - ts raises
\* OverflowError when ts does not fit a float, and hmac.compare_digest raises
\* TypeError on a str with non-ASCII characters.
VerifySlackRequest(body, signature, timestamp, max_age_seconds, secret, now) ==
    IF secret = "" \/ ~Truthy(signature) \/ ~Truthy(timestamp) THEN "False"
    ELSE IF ~ParsesAsInt(timestamp) THEN "False"
    ELSE IF timestamp[1] = "huge" THEN "OverflowError"
    ELSE LET max_age == IF max_age_seconds # None THEN max_age_seconds[2]
                        ELSE SLACK_REQUEST_MAX_AGE_SECONDS
         IN  IF Abs(now - timestamp[2]) > max_age THEN "False"
             ELSE IF signature = <<"nonascii">> THEN "TypeError"
             ELSE IF ComputedSignature(secret, timestamp, body) = signature
                  THEN "True" ELSE "False"

VerifyInputs ==
    [body : BodyValues, signature : SigHeaderValues, timestamp : TsHeaderValues,
     max_age_seconds : MaxAgeArgs, secret : SecretValues, now : NowValues]

\* one call of verify_slack_request on the drawn arguments
VerifyCall ==
    /\ verifyOut = "pending"
    /\ verifyOut' = VerifySlackRequest(verifyIn.body, verifyIn.signature,
                        verifyIn.timestamp, verifyIn.max_age_seconds,
                        verifyIn.secret, verifyIn.now)
    /\ UNCHANGED <<processed, routerVars, ledgerVars, verifyIn, resolveVars, shapeVars>>

(***************************************************************************)
(* Python str operations.  A str is a sequence of one-character strings.   *)
(***************************************************************************)
WS == {" ", "\n"}

Min(S) == CHOOSE x \in S : \A y \in S : x <= y

\* str.lstrip / str.rstrip / str.strip
RECURSIVE LStrip(_)
LStrip(s) == IF s # <<>> /\ Head(s) \in WS THEN LStrip(Tail(s)) ELSE s

RECURSIVE RStrip(_)
RStrip(s) ==
    IF s # <<>> /\ s[Len(s)] \in WS THEN RStrip(SubSeq(s, 1, Len(s) - 1)) ELSE s

Strip(s) == RStrip(LStrip(s))

\* s[n:]
DropFirst(s, n) == SubSeq(s, n + 1, Len(s))

\* str.startswith
StartsWith(s, p) == Len(p) <= Len(s) /\ SubSeq(s, 1, Len(p)) = p

\* str.find, 1-based: the first index at which p occurs in s, 0 when it does not
Find(s, p) ==
    LET hits == {i \in 1..(Len(s) - Len(p) + 1) : SubSeq(s, i, i + Len(p) - 1) = p}
    IN  IF hits = {} THEN 0 ELSE Min(hits)

\* str.replace(p, r, 1)
ReplaceFirst(s, p, r) ==
    LET i == Find(s, p)
    IN  IF i = 0 THEN s
        ELSE SubSeq(s, 1, i - 1) \o r \o DropFirst(s, i + Len(p) - 1)

\* str.replace(p, r): every non-overlapping occurrence, left to right
RECURSIVE ReplaceAll(_, _, _)
ReplaceAll(s, p, r) ==
    LET i == Find(s, p)
    IN  IF i = 0 THEN s
        ELSE SubSeq(s, 1, i - 1) \o r \o ReplaceAll(DropFirst(s, i + Len(p) - 1), p, r)

\* " ".join(s.split())
RECURSIVE CollapseSpaces(_)
CollapseSpaces(s) ==
    LET t == LStrip(s)
        stops == {i \in 1..Len(t) : t[i] \in WS}
        n == IF stops = {} THEN Len(t) ELSE Min(stops) - 1
        rest == CollapseSpaces(DropFirst(t, n))
    IN  IF t = <<>> THEN <<>>
        ELSE IF rest = <<>> THEN SubSeq(t, 1, n)
        ELSE SubSeq(t, 1, n) \o <<" ">> \o rest

\* str.lower on the letters of the model's alphabet
LowerChar(c) ==
    CASE c = "A" -> "a" [] c = "H" -> "h" [] c = "P" -> "p" [] c = "T" -> "t"
      [] c = "U" -> "u" [] OTHER -> c

Lower(s) == [i \in 1..Len(s) |-> LowerChar(s[i])]

(***************************************************************************)
(* Content shaper: main.py:17-75, 171-186                                  *)
(***************************************************************************)
\* _EMOJI_PLACEHOLDER, the word "EMOJISLACK" as one symbol of the alphabet
EMOJI_PLACEHOLDER == "EMOJISLACK"

DigitChars == <<"0", "1", "2", "3", "4", "5", "6", "7", "8", "9">>

\* the class [a-zA-Z0-9_+] of _EMOJI_PATTERN
EmojiNameChars ==
    {"a", "b", "c", "d", "e", "h", "i", "o", "p", "t", "u", "x",
     "A", "H", "P", "T", "U", "_", "+", EMOJI_PLACEHOLDER} \cup Range(DigitChars)

\* str(i)
RECURSIVE Decimal(_)
Decimal(i) ==
    IF i < 10 THEN <<DigitChars[i + 1]>>
    ELSE Decimal(i \div 10) \o <<DigitChars[(i % 10) + 1]>>

\* f":{_EMOJI_PLACEHOLDER}{i}:"
Placeholder(i) == <<":", EMOJI_PLACEHOLDER>> \o Decimal(i) \o <<":">>

\* how many characters of the class follow from index k on
RECURSIVE NameLen(_, _)
NameLen(s, k) ==
    IF k <= Len(s) /\ s[k] \in EmojiNameChars THEN 1 + NameLen(s, k + 1) ELSE 0

\* where a match of :([a-zA-Z0-9_+]+): starting at index i ends, 0 when none
EmojiEnd(s, i) ==
    IF s[i] # ":" THEN 0
    ELSE LET n == NameLen(s, i + 1)
         IN  IF n >= 1 /\ i + 1 + n <= Len(s) /\ s[i + 1 + n] = ":"
             THEN i + 1 + n ELSE 0

\* _EMOJI_PATTERN.sub(repl, text): leftmost non-overlapping matches
RECURSIVE EmojiScan(_, _, _, _)
EmojiScan(s, i, out, codes) ==
    IF i > Len(s) THEN [text |-> out, shortcodes |-> codes]
    ELSE IF EmojiEnd(s, i) > 0
         THEN EmojiScan(s, EmojiEnd(s, i) + 1, out \o Placeholder(Len(codes)),
                        Append(codes, SubSeq(s, i, EmojiEnd(s, i))))
         ELSE EmojiScan(s, i + 1, Append(out, s[i]), codes)

\* _replace_slack_emojis_for_translation
ReplaceSlackEmojis(text) == EmojiScan(text, 1, <<>>, <<>>)

\* _restore_slack_emojis: one str.replace per shortcode, in index order
RECURSIVE RestoreFrom(_, _, _)
RestoreFrom(text, shortcodes, i) ==
    IF i > Len(shortcodes) THEN text
    ELSE RestoreFrom(ReplaceAll(text, Placeholder(i - 1), shortcodes[i]),
                     shortcodes, i + 1)

RestoreSlackEmojis(text, shortcodes) == RestoreFrom(text, shortcodes, 1)

\* mutant: the text is split on its last newline
SplitHeadlineBodyLast(text) ==
    LET t == Strip(text)
        nls == {i \in 1..Len(t) : t[i] = "\n"}
        idx == IF nls = {} THEN 0 ELSE CHOOSE i \in nls : \A j \in nls : j <= i
    IN  IF t = <<>> THEN [headline |-> <<>>, body |-> <<>>]
        ELSE IF idx = 0 THEN [headline |-> t, body |-> <<>>]
        ELSE [headline |-> Strip(SubSeq(t, 1, idx - 1)),
              body |-> Strip(DropFirst(t, idx))]

\* _split_headline_body
SplitHeadlineBody(text) ==
    LET t == Strip(text)
        idx == Find(t, <<"\n">>)
    IN  IF t = <<>> THEN [headline |-> <<>>, body |-> <<>>]
        ELSE IF idx = 0 THEN [headline |-> t, body |-> <<>>]
        ELSE [headline |-> Strip(SubSeq(t, 1, idx - 1)),
              body |-> Strip(DropFirst(t, idx))]

\* _extract_content_to_translate over the phrases from index i on
RECURSIVE ExtractFrom(_, _, _)
ExtractFrom(text, phrases, i) ==
    IF i > Len(phrases) THEN text
    ELSE LET pos == Find(Lower(text), Lower(phrases[i]))
             after == Strip(DropFirst(text, pos - 1 + Len(phrases[i])))
         IN  IF pos > 0 /\ after # <<>> THEN after
             ELSE ExtractFrom(text, phrases, i + 1)

\* mutant: the phrases are tried in reverse order, shortest first
ExtractContentShortestFirst(text, phrases) ==
    IF text = <<>> \/ phrases = <<>> THEN text
    ELSE ExtractFrom(text, [i \in 1..Len(phrases) |-> phrases[Len(phrases) + 1 - i]], 1)

\* _extract_content_to_translate(text) with config.EXTRACT_PHRASES_LIST = phrases
ExtractContentToTranslate(text, phrases) ==
    IF text = <<>> \/ phrases = <<>> THEN text ELSE ExtractFrom(text, phrases, 1)

(***************************************************************************)
(* Configuration: config.py.  A configuration is a record                  *)
(*   SLACK_SIGNING_SECRET, SLACK_BOT_TOKEN, DEEPL_API_KEY : "" when unset  *)
(*   CHANNEL_IDS_LIST : set of channel ids, {} = all channels              *)
(*   TRANSLATE_TRIGGER : "all" | "prefix" | "mention" | "reaction"         *)
(*   TRANSLATE_PREFIX, REACTION_TRIGGER_EMOJI : str                        *)
(*   EXCLUDE_PHRASES_LIST, EXTRACT_PHRASES_LIST : sequence of str          *)
(*   SLACK_USER_TOKEN : str                                                *)
(***************************************************************************)
\* JSON null / a key that dict.get does not find, for scalar fields
Null == "null"
\* a JSON value of another type where the code expects a str
NonStr == <<"non-str">>

\* main.py reads config.EXTRACT_PHRASES_LIST, which config.py does not define;
\* the list is the spec's "configured ordered list of trigger phrases,
\* longest-first"
EXTRACT_PHRASES_LIST == << <<"p", "t", ":">>, <<"t", ":">> >>

\* main.py:289 reads config.SLACK_USER_TOKEN, which config.py does not define
\* either: the spec's optional elevated token, unset by default
SLACK_USER_TOKEN == ""

\* Python truthiness of a scalar field, and `x or y`
IsSet(x) == x \notin {Null, ""}
Or(x, y) == IF IsSet(x) THEN x ELSE y

BaseConfig ==
    [SLACK_SIGNING_SECRET |-> "s1", SLACK_BOT_TOKEN |-> "xoxb",
     DEEPL_API_KEY |-> "key", CHANNEL_IDS_LIST |-> {},
     TRANSLATE_TRIGGER |-> "all", TRANSLATE_PREFIX |-> <<"#", "t">>,
     REACTION_TRIGGER_EMOJI |-> <<"d", "e">>,
     EXCLUDE_PHRASES_LIST |-> << <<"a">> >>,
     EXTRACT_PHRASES_LIST |-> EXTRACT_PHRASES_LIST,
     SLACK_USER_TOKEN |-> SLACK_USER_TOKEN]

(***************************************************************************)
(* Remote services.  What they answer during one request is an input       *)
(*   env.translate : <<o1, o2>>, DeepL's answer for the headline and for   *)
(*                   the body: "EN" (translated, source detected as        *)
(*                   English), "FR" (another source language), "error"     *)
(*   env.post      : "ok" | "fail"       chat.postMessage                  *)
(*   env.auth      : a user id | None    auth.test                         *)
(*   env.fetch     : the Slack Web API's answers to the message resolver   *)
(* Every remote call made is recorded in the request's call list.          *)
(***************************************************************************)
\* the German text DeepL returns for an English text
DeepL(text) == <<"~">> \o text

\* translate.translate_en_to_de: [value |-> str or None, called |-> provider called]
TranslateEnToDe(text, cfg, outcome) ==
    IF Strip(text) = <<>> THEN [value |-> None, called |-> FALSE]
    ELSE IF cfg.DEEPL_API_KEY = "" THEN [value |-> None, called |-> FALSE]
    ELSE IF outcome = "EN" THEN [value |-> DeepL(Strip(text)), called |-> TRUE]
    ELSE [value |-> None, called |-> TRUE]

\* the calls one translate_en_to_de makes
TranslateCalls(text, r) ==
    IF r.called THEN << <<"translate", Strip(text), r.value # None>> >> ELSE <<>>

\* `t if t else part`
OrElse(t, part) == IF t = None \/ t = <<>> THEN part ELSE t

\* main.py:64-75: h and b are what translate_en_to_de returned for the parts
JoinParts(em, hb, h, b) ==
    LET hparts == IF hb.headline # <<>> THEN <<OrElse(h.value, hb.headline)>> ELSE <<>>
        bparts == IF hb.body # <<>> THEN <<OrElse(b.value, hb.body)>> ELSE <<>>
        parts == hparts \o bparts
        joined == IF Len(parts) = 2 THEN parts[1] \o <<"\n">> \o parts[2] ELSE parts[1]
        calls == (IF hb.headline # <<>> THEN TranslateCalls(hb.headline, h) ELSE <<>>)
                 \o (IF hb.body # <<>> THEN TranslateCalls(hb.body, b) ELSE <<>>)
    IN  IF parts = <<>> THEN [value |-> None, calls |-> calls]
        ELSE [value |-> RestoreSlackEmojis(joined, em.shortcodes), calls |-> calls]

\* main.py:62-70: translate the headline and the body of the protected text
TranslateParts(em, hb, cfg, outcomes) ==
    JoinParts(em, hb, TranslateEnToDe(hb.headline, cfg, outcomes[1]),
              TranslateEnToDe(hb.body, cfg, outcomes[2]))

\* main.py:61-62: protect the emoji shortcodes, then split
ProtectAndTranslate(em, cfg, outcomes) ==
    TranslateParts(em, SplitHeadlineBody(em.text), cfg, outcomes)

\* _translate_headline_and_body: [value |-> str or None, calls |-> provider calls]
TranslateHeadlineAndBody(text, cfg, outcomes) ==
    IF Strip(text) = <<>> THEN [value |-> None, calls |-> <<>>]
    ELSE ProtectAndTranslate(ReplaceSlackEmojis(text), cfg, outcomes)

\* mutant: the identity is looked up on every call
GetBotUserIdEachTime(cache, cfg, env) ==
    IF cfg.SLACK_BOT_TOKEN = "" THEN [id |-> cache, cache |-> cache, calls |-> <<>>]
    ELSE [id |-> env.auth, cache |-> env.auth, calls |-> << <<"auth.test", env.auth>> >>]

\* _get_bot_user_id: [id |-> the id or None, cache |-> _bot_user_id after, calls]
GetBotUserId(cache, cfg, env) ==
    IF cache # None THEN [id |-> cache, cache |-> cache, calls |-> <<>>]
    ELSE IF cfg.SLACK_BOT_TOKEN = "" THEN [id |-> None, cache |-> None, calls |-> <<>>]
    ELSE [id |-> env.auth, cache |-> env.auth, calls |-> << <<"auth.test", env.auth>> >>]

\* mutant: without a bot user id every message is translated as it is
MentionTriggerOpen(text, bot) ==
    LET mention == <<"<", "@">> \o bot.id \o <<">">>
        unmentioned == CollapseSpaces(Strip(ReplaceFirst(text, mention, <<" ">>)))
    IN  [text |-> IF bot.id = None THEN text
                  ELSE IF Find(text, mention) = 0 THEN None
                  ELSE IF unmentioned = <<>> THEN None ELSE unmentioned,
         cache |-> bot.cache, calls |-> bot.calls]

\* main.py:136-146: trigger "mention", bot is what _get_bot_user_id returned
MentionTrigger(text, bot) ==
    LET mention == <<"<", "@">> \o bot.id \o <<">">>
        unmentioned == CollapseSpaces(Strip(ReplaceFirst(text, mention, <<" ">>)))
    IN  [text |-> IF bot.id = None THEN None
                  ELSE IF Find(text, mention) = 0 THEN None
                  ELSE IF unmentioned = <<>> THEN None ELSE unmentioned,
         cache |-> bot.cache, calls |-> bot.calls]

\* mutant: the prefix is matched whatever its case
PrefixTriggerAnyCase(text, prefix) ==
    IF prefix = <<>> \/ ~StartsWith(Lower(text), Lower(prefix)) THEN None
    ELSE IF Strip(DropFirst(text, Len(prefix))) = <<>> THEN None
    ELSE Strip(DropFirst(text, Len(prefix)))

\* main.py:129-134: trigger "prefix"
PrefixTrigger(text, prefix) ==
    IF prefix = <<>> \/ ~StartsWith(text, prefix) THEN None
    ELSE IF Strip(DropFirst(text, Len(prefix))) = <<>> THEN None
    ELSE Strip(DropFirst(text, Len(prefix)))

\* _should_translate_and_strip: [text |-> str or None, cache, calls]
ShouldTranslateAndStrip(text, cache, cfg, env) ==
    IF cfg.TRANSLATE_TRIGGER = "all" THEN [text |-> text, cache |-> cache, calls |-> <<>>]
    ELSE IF cfg.TRANSLATE_TRIGGER = "prefix"
    THEN [text |-> PrefixTrigger(text, cfg.TRANSLATE_PREFIX), cache |-> cache,
          calls |-> <<>>]
    ELSE IF cfg.TRANSLATE_TRIGGER = "mention"
    THEN MentionTrigger(text, GetBotUserId(cache, cfg, env))
    ELSE [text |-> text, cache |-> cache, calls |-> <<>>]

\* _normalize_reaction_name
NormalizeReactionName(name) == ReplaceAll(Lower(Strip(name)), <<"-">>, <<"_">>)

\* `int(reaction.get("count", 1) or 0)`: count is <<"absent">>, None or <<"int", n>>
ReactionCount(count) ==
    IF count = <<"absent">> THEN 1 ELSE IF count = None THEN 0 ELSE count[2]

\* mutant: the count of a matching entry is not looked at
MessageHasReactionAnyCount(reactions, reaction_name) ==
    /\ reactions # None
    /\ \E i \in 1..Len(reactions[2]) :
          NormalizeReactionName(reactions[2][i].name)
              = NormalizeReactionName(reaction_name)

\* _message_has_reaction; reactions is None or <<"list", sequence of [name, count]>>
MessageHasReaction(reactions, reaction_name) ==
    /\ reactions # None
    /\ \E i \in 1..Len(reactions[2]) :
          /\ NormalizeReactionName(reactions[2][i].name)
             = NormalizeReactionName(reaction_name)
          /\ ReactionCount(reactions[2][i].count) > 0

(***************************************************************************)
(* Message resolver: main.py:199-455, _fetch_message.                      *)
(*                                                                         *)
(* env.fetch is what the Slack Web API answers during one resolution:      *)
(*   exact   : the answer to conversations.history(oldest = latest = ts)   *)
(*   replies : anchor ts -> the pages conversations.replies returns for it *)
(*   history : the pages conversations.history(latest = ts) returns        *)
(* Each of them is what Slack sends back to the POST of _api_call, a record *)
(*   status : "ok" (HTTP 200 and ok true) | "error" (another status or ok  *)
(*            false) | "429" | "raise" (httpx raises) | "unparsable" (a    *)
(*            status other than 200 and 429 with a body that r.json()      *)
(*            cannot parse) | "invalid_arguments" (HTTP 200, ok false,     *)
(*            error invalid_arguments; the field retry is then what Slack  *)
(*            sends back to the GET)                                       *)
(*   messages, next_cursor (is there one), has_more                        *)
(* ApiCall turns it into what _api_call returns, with the number of HTTP   *)
(* requests made.  Each call made is recorded as                           *)
(*   <<method, token, anchor ts, page, status returned, requests>>         *)
(* with page 0 for the exact-timestamp query.                              *)
(***************************************************************************)
\* range(max_pages) and range(4): the pages one scan or discovery may read
MAX_PAGES == 4
\* the direct scan is called with max_pages=1
DIRECT_MAX_PAGES == 1
\* parent_candidates[:30]
MAX_CANDIDATES == 30

SlackMsg(ts, text, thread_ts, reply_count) ==
    [ts |-> ts, text |-> text, thread_ts |-> thread_ts, reply_count |-> reply_count]

Answer(status, messages, next_cursor, has_more) ==
    [status |-> status, messages |-> messages, next_cursor |-> next_cursor,
     has_more |-> has_more]
OkPage(messages, next_cursor) == Answer("ok", messages, next_cursor, next_cursor)
ErrorPage == Answer("error", <<>>, FALSE, FALSE)
RateLimited == Answer("429", <<>>, FALSE, FALSE)
Raises == Answer("raise", <<>>, FALSE, FALSE)
Unparsable == Answer("unparsable", <<>>, FALSE, FALSE)
InvalidArguments(retry) ==
    [status |-> "invalid_arguments", messages |-> <<>>, next_cursor |-> FALSE,
     has_more |-> FALSE, retry |-> retry]

\* main.py:218-254, _api_call: r.json() of the POST is not guarded, the one
\* of the GET retry is (an unparsable retry counts as an empty answer with
\* the retry's status); the retry is not retried
ApiCall(sent) ==
    IF sent.status = "unparsable" THEN Raises @@ [requests |-> 1]
    ELSE IF sent.status = "invalid_arguments"
    THEN (IF sent.retry.status \in {"unparsable", "invalid_arguments"}
          THEN ErrorPage ELSE sent.retry) @@ [requests |-> 2]
    ELSE sent @@ [requests |-> 1]

\* float(ts) in microseconds for the timestamps explored, -1 where it raises
TsFloat(s) ==
    CASE s = "110.000" -> 110000000
      [] s = "111.000" -> 111000000
      [] s = "111.001" -> 111001000
      [] s = "111.0010" -> 111001000
      [] OTHER -> -1

\* _ts_matches: the same string, or floats less than a microsecond apart
TsMatches(candidate_ts, ts_str) ==
    /\ candidate_ts # Null
    /\ \/ candidate_ts = ts_str
       \/ /\ TsFloat(ts_str) # -1
          /\ TsFloat(candidate_ts) # -1
          /\ Abs(TsFloat(candidate_ts) - TsFloat(ts_str)) < 1

\* `(msg.get("text") or "").strip()`
TextOf(text) == IF text = None THEN <<>> ELSE Strip(text)

\* the first message of a page that matches the target, 0 if none does
FirstMatch(messages, ts_str) ==
    IF \E i \in 1..Len(messages) : TsMatches(messages[i].ts, ts_str)
    THEN Min({i \in 1..Len(messages) : TsMatches(messages[i].ts, ts_str)})
    ELSE 0

\* the n-th page conversations.replies returns for an anchor (an error for a
\* thread Slack does not know)
RepliesPage(api, anchor_ts, n) ==
    IF anchor_ts \in DOMAIN api.replies /\ n <= Len(api.replies[anchor_ts])
    THEN api.replies[anchor_ts][n]
    ELSE ErrorPage

ScanResult(status, text, post_thread_ts, calls) ==
    [status |-> status, text |-> text, post_thread_ts |-> post_thread_ts,
     calls |-> calls]

RECURSIVE ScanPages(_, _, _, _, _, _, _)
\* mutant: the reply anchor is the found entry's own timestamp
ScanPageOwnTs(api, token, anchor_ts, ts_str, n, max_pages, calls, page) ==
    LET made == Append(calls, <<"conversations.replies", token, anchor_ts, n,
                                page.status, page.requests>>)
        i == FirstMatch(page.messages, ts_str)
    IN  IF page.status = "raise" THEN ScanResult("raise", None, Null, made)
        ELSE IF page.status = "429" THEN ScanResult("rate_limited", None, Null, made)
        ELSE IF page.status # "ok" THEN ScanResult("error", None, Null, made)
        ELSE IF i # 0
        THEN ScanResult("found", TextOf(page.messages[i].text), ts_str, made)
        ELSE IF ~page.next_cursor THEN ScanResult("not_found", None, Null, made)
        ELSE ScanPages(api, token, anchor_ts, ts_str, n + 1, max_pages, made)

\* main.py:332-359: page is the answer to the n-th conversations.replies call
ScanPage(api, token, anchor_ts, ts_str, n, max_pages, calls, page) ==
    LET made == Append(calls, <<"conversations.replies", token, anchor_ts, n,
                                page.status, page.requests>>)
        i == FirstMatch(page.messages, ts_str)
    IN  IF page.status = "raise" THEN ScanResult("raise", None, Null, made)
        ELSE IF page.status = "429" THEN ScanResult("rate_limited", None, Null, made)
        ELSE IF page.status # "ok" THEN ScanResult("error", None, Null, made)
        ELSE IF i # 0
        THEN ScanResult("found", TextOf(page.messages[i].text),
                        Or(page.messages[i].thread_ts, anchor_ts), made)
        ELSE IF ~page.next_cursor THEN ScanResult("not_found", None, Null, made)
        ELSE ScanPages(api, token, anchor_ts, ts_str, n + 1, max_pages, made)

\* mutant: a scan follows the cursors as long as there are any
ScanPagesUncapped(api, token, anchor_ts, ts_str, n, max_pages, calls) ==
    ScanPage(api, token, anchor_ts, ts_str, n, max_pages, calls,
             ApiCall(RepliesPage(api, anchor_ts, n)))

\* _scan_thread_for_target from its n-th page on
ScanPages(api, token, anchor_ts, ts_str, n, max_pages, calls) ==
    IF n > max_pages THEN ScanResult("not_found", None, Null, calls)
    ELSE ScanPage(api, token, anchor_ts, ts_str, n, max_pages, calls,
                  ApiCall(RepliesPage(api, anchor_ts, n)))

\* _scan_thread_for_target(anchor_ts, max_pages)
ScanThreadForTarget(api, token, anchor_ts, ts_str, max_pages, calls) ==
    ScanPages(api, token, anchor_ts, ts_str, 1, max_pages, calls)

\* what _fetch_message returns
Resolved(text, reply_thread_ts, calls) ==
    [text |-> text, reply_thread_ts |-> reply_thread_ts, calls |-> calls]
NotFound(calls) == Resolved(None, Null, calls)

\* `int(msg.get("reply_count", 0) or 0)`, 0 when int() raises
ReplyCount(count) ==
    IF count = <<"absent">> \/ count = None THEN 0
    ELSE IF count[1] = "int" THEN count[2] ELSE 0

HasTs(msg) == IsSet(msg.ts)
HasReplies(msg) == IsSet(msg.ts) /\ ReplyCount(msg.reply_count) > 0
TsOf(messages) == [i \in 1..Len(messages) |-> messages[i].ts]
FirstN(s, n) == IF Len(s) <= n THEN s ELSE SubSeq(s, 1, n)

\* main.py:420-434: the parents to try, in the order history returned them
ParentCandidates(all_messages) ==
    FirstN(IF SelectSeq(all_messages, HasReplies) # <<>>
           THEN TsOf(SelectSeq(all_messages, HasReplies))
           ELSE TsOf(SelectSeq(all_messages, HasTs)),
           MAX_CANDIDATES)

RECURSIVE ScanCandidates(_, _, _, _, _, _)
\* main.py:442-445: r is the scan of the i-th candidate's thread
AfterCandidate(api, token, ts_str, candidates, i, r) ==
    IF r.status = "found" /\ r.text # <<>>
    THEN Resolved(r.text, r.post_thread_ts, r.calls)
    ELSE IF r.status \in {"rate_limited", "raise"} THEN NotFound(r.calls)
    ELSE ScanCandidates(api, token, ts_str, candidates, i + 1, r.calls)

\* main.py:440-452: scan the candidates' threads from the i-th on
ScanCandidates(api, token, ts_str, candidates, i, calls) ==
    IF i > Len(candidates) THEN NotFound(calls)
    ELSE AfterCandidate(api, token, ts_str, candidates, i,
             ScanThreadForTarget(api, token, candidates[i], ts_str, MAX_PAGES, calls))

HistoryResult(status, messages, calls) ==
    [status |-> status, messages |-> messages, calls |-> calls]

RECURSIVE HistoryPages(_, _, _, _, _, _)
\* main.py:396-417: page is the answer to the n-th discovery history call
HistoryPageRead(api, token, ts_str, n, all_messages, calls, page) ==
    LET made == Append(calls, <<"conversations.history", token, ts_str, n,
                                page.status, page.requests>>)
    IN  IF page.status = "raise" THEN HistoryResult("raise", all_messages, made)
        ELSE IF page.status = "429" THEN HistoryResult("rate_limited", all_messages, made)
        ELSE IF page.status # "ok" THEN HistoryResult("ok", all_messages, made)
        ELSE IF ~page.next_cursor \/ ~page.has_more
        THEN HistoryResult("ok", all_messages \o page.messages, made)
        ELSE HistoryPages(api, token, ts_str, n + 1, all_messages \o page.messages, made)

\* main.py:380-417: the discovery history pages from the n-th on
HistoryPages(api, token, ts_str, n, all_messages, calls) ==
    IF n > MAX_PAGES THEN HistoryResult("ok", all_messages, calls)
    ELSE HistoryPageRead(api, token, ts_str, n, all_messages, calls,
             ApiCall(IF n <= Len(api.history) THEN api.history[n] ELSE ErrorPage))

\* main.py:419-452: h is what the discovery history pages gave
AfterHistory(api, token, ts_str, h) ==
    IF h.status \in {"rate_limited", "raise"} THEN NotFound(h.calls)
    ELSE ScanCandidates(api, token, ts_str, ParentCandidates(h.messages), 1, h.calls)

\* main.py:378-452: step 3, parent discovery
ParentDiscovery(api, token, ts_str, calls) ==
    AfterHistory(api, token, ts_str, HistoryPages(api, token, ts_str, 1, <<>>, calls))

\* main.py:372-376: r is the scan anchored at the event's parent hint
AfterHintScan(api, token, ts_str, r) ==
    IF r.status = "found" /\ r.text # <<>>
    THEN Resolved(r.text, r.post_thread_ts, r.calls)
    ELSE IF r.status \in {"rate_limited", "raise"} THEN NotFound(r.calls)
    ELSE ParentDiscovery(api, token, ts_str, r.calls)

\* mutant: any hint is scanned, also one that is the target itself
AfterDirectScanAnyHint(api, token, ts_str, thread_ts, r) ==
    IF r.status = "found" /\ r.text # <<>>
    THEN Resolved(r.text, r.post_thread_ts, r.calls)
    ELSE IF r.status \in {"rate_limited", "raise"} THEN NotFound(r.calls)
    ELSE IF IsSet(thread_ts)
    THEN AfterHintScan(api, token, ts_str,
             ScanThreadForTarget(api, token, thread_ts, ts_str, MAX_PAGES, r.calls))
    ELSE ParentDiscovery(api, token, ts_str, r.calls)

\* main.py:362-376: r is the scan anchored at the target itself
AfterDirectScan(api, token, ts_str, thread_ts, r) ==
    IF r.status = "found" /\ r.text # <<>>
    THEN Resolved(r.text, r.post_thread_ts, r.calls)
    ELSE IF r.status \in {"rate_limited", "raise"} THEN NotFound(r.calls)
    ELSE IF IsSet(thread_ts) /\ thread_ts # ts_str
    THEN AfterHintScan(api, token, ts_str,
             ScanThreadForTarget(api, token, thread_ts, ts_str, MAX_PAGES, r.calls))
    ELSE ParentDiscovery(api, token, ts_str, r.calls)

\* mutant: the bot token authorizes every call
RepliesTokenBotOnly(cfg) == cfg.SLACK_BOT_TOKEN

\* `user_token or config.SLACK_BOT_TOKEN`
RepliesToken(cfg) ==
    IF cfg.SLACK_USER_TOKEN # "" THEN cfg.SLACK_USER_TOKEN ELSE cfg.SLACK_BOT_TOKEN

\* mutant: a message from the exact-timestamp query does not end the resolution
AfterExactQueryScansOn(api, ts, thread_ts, cfg, exact, calls) ==
    IF exact.status = "raise" THEN NotFound(calls)
    ELSE AfterDirectScan(api, RepliesToken(cfg), ts, thread_ts,
             ScanThreadForTarget(api, RepliesToken(cfg), ts, ts, DIRECT_MAX_PAGES, calls))

\* main.py:256-376: exact is the answer to the exact-timestamp history query
AfterExactQuery(api, ts, thread_ts, cfg, exact, calls) ==
    IF exact.status = "raise" THEN NotFound(calls)
    ELSE IF exact.status = "ok" /\ exact.messages # <<>>
    THEN Resolved(TextOf(exact.messages[1].text), ts, calls)
    ELSE AfterDirectScan(api, RepliesToken(cfg), ts, thread_ts,
             ScanThreadForTarget(api, RepliesToken(cfg), ts, ts, DIRECT_MAX_PAGES, calls))

\* _fetch_message: [text |-> str or None, reply_thread_ts, calls]
FetchMessage(channel_id, ts, thread_ts, cfg, env) ==
    IF cfg.SLACK_BOT_TOKEN = "" THEN NotFound(<<>>)
    ELSE AfterExactQuery(env.fetch, ts, thread_ts, cfg, ApiCall(env.fetch.exact),
             << <<"conversations.history", cfg.SLACK_BOT_TOKEN, ts, 0,
                  ApiCall(env.fetch.exact).status,
                  ApiCall(env.fetch.exact).requests>> >>)

\* _post_thread_reply: the calls it makes (none without a bot token)
PostThreadReply(channel_id, thread_ts, text, cfg, env) ==
    IF cfg.SLACK_BOT_TOKEN = "" THEN <<>>
    ELSE << <<"post", channel_id, thread_ts, text, env.post>> >>

(***************************************************************************)
(* Event router: main.py:494-673, slack_events.                            *)
(*                                                                         *)
(* A parsed body is a record                                               *)
(*   json : "invalid" (json.loads raises) | "array" (valid JSON that is    *)
(*          not an object) | "object"                                      *)
(*   type, challenge, event                                                *)
(* and an event a record of the fields slack_events reads; a field the     *)
(* payload lacks is Null (scalars) or None (strs and lists).               *)
(*                                                                         *)
(* The outcome of one request is a record                                  *)
(*   status, body : the HTTP response (500 when an exception escapes)      *)
(*   ledger, cache : _processed and _bot_user_id after the request         *)
(*   calls : the remote calls made, in order                               *)
(*   check : <<"none">>, or <<"check", key, seen>> for the one             *)
(*           _already_processed call made                                  *)
(***************************************************************************)
NoCheck == <<"none">>

Response(status, body, ledger, cache, calls, check) ==
    [status |-> status, body |-> body, ledger |-> ledger, cache |-> cache,
     calls |-> calls, check |-> check]

\* PlainTextResponse("OK", status_code=200)
Ok(ledger, cache, calls, check) ==
    Response(200, <<"text", "OK">>, ledger, cache, calls, check)

\* an uncaught exception: the server answers 500 Internal Server Error
Raised(ledger, cache, calls, check) ==
    Response(500, <<"text", "Internal Server Error">>, ledger, cache, calls, check)

\* `channel_id in config.CHANNEL_IDS_LIST` filter
ChannelFiltered(channel_id, cfg) ==
    cfg.CHANNEL_IDS_LIST # {} /\ channel_id \notin cfg.CHANNEL_IDS_LIST

\* mutant: a failed post is tried once more
PostTranslatedRetry(tr, channel_id, thread_ts, ledger, cache, calls, check, cfg, env) ==
    IF tr.value = None \/ tr.value = <<>>
    THEN Ok(ledger, cache, calls \o tr.calls, check)
    ELSE Ok(ledger, cache,
            calls \o tr.calls \o PostThreadReply(channel_id, thread_ts, tr.value, cfg, env)
                  \o (IF env.post = "fail"
                      THEN PostThreadReply(channel_id, thread_ts, tr.value, cfg, env)
                      ELSE <<>>),
            check)

\* main.py:567-574, 614-628, 664-673: tr is what _translate_headline_and_body
\* returned; post it unless it is empty
PostTranslated(tr, channel_id, thread_ts, ledger, cache, calls, check, cfg, env) ==
    IF tr.value = None \/ tr.value = <<>>
    THEN Ok(ledger, cache, calls \o tr.calls, check)
    ELSE Ok(ledger, cache,
            calls \o tr.calls \o PostThreadReply(channel_id, thread_ts, tr.value, cfg, env),
            check)

\* main.py:564-566, 611-613, 659-663: translate the extracted content
TranslateExtracted(extracted, channel_id, thread_ts, ledger, cache, calls, check, cfg, env) ==
    IF extracted = <<>> THEN Ok(ledger, cache, calls, check)
    ELSE PostTranslated(TranslateHeadlineAndBody(extracted, cfg, env.translate),
                        channel_id, thread_ts, ledger, cache, calls, check, cfg, env)

\* main.py:563-574, 610-628, 658-673: extract, translate, post
TranslateAndPost(text, channel_id, thread_ts, ledger, cache, calls, check, cfg, env) ==
    TranslateExtracted(ExtractContentToTranslate(text, cfg.EXTRACT_PHRASES_LIST),
                       channel_id, thread_ts, ledger, cache, calls, check, cfg, env)

\* main.py:555-574: fetched is what _fetch_message returned
ReactionFetched(fetched, channel_id, message_ts, ledger, cache, check, cfg, env) ==
    IF fetched.text = None \/ fetched.text = <<>>
    THEN Ok(ledger, cache, fetched.calls, check)
    ELSE TranslateAndPost(fetched.text, channel_id,
                          Or(fetched.reply_thread_ts, message_ts),
                          ledger, cache, fetched.calls, check, cfg, env)

\* mutant: the resolution is not guarded by the ledger
ReactionAcceptedNoDedup(item, key, ledger, cache, cfg, env) ==
    ReactionFetched(FetchMessage(item.channel, item.ts, item.thread_ts, cfg, env),
                    item.channel, item.ts, MarkProcessed(ledger, key), cache,
                    <<"check", key, IsProcessed(ledger, key)>>, cfg, env)

\* mutant: a reacted message is looked up in the ledger but not entered
ReactionAcceptedNoMark(item, key, ledger, cache, cfg, env) ==
    IF IsProcessed(ledger, key)
    THEN Ok(ledger, cache, <<>>, <<"check", key, TRUE>>)
    ELSE ReactionFetched(FetchMessage(item.channel, item.ts, item.thread_ts, cfg, env),
                         item.channel, item.ts, ledger, cache,
                         <<"check", key, FALSE>>, cfg, env)

\* main.py:553-574: the reaction matches and the channel is allowed
ReactionAccepted(item, key, ledger, cache, cfg, env) ==
    IF IsProcessed(ledger, key)
    THEN Ok(ledger, cache, <<>>, <<"check", key, TRUE>>)
    ELSE ReactionFetched(FetchMessage(item.channel, item.ts, item.thread_ts, cfg, env),
                         item.channel, item.ts, MarkProcessed(ledger, key), cache,
                         <<"check", key, FALSE>>, cfg, env)

\* main.py:532-574: event type reaction_added
ReactionAddedPath(event, ledger, cache, cfg, env) ==
    LET raw_reaction == IF event.reaction = None THEN <<>> ELSE event.reaction
        item == event.item
    IN  IF cfg.TRANSLATE_TRIGGER # "reaction" THEN Ok(ledger, cache, <<>>, NoCheck)
        ELSE IF raw_reaction = NonStr THEN Raised(ledger, cache, <<>>, NoCheck)
        ELSE IF NormalizeReactionName(raw_reaction)
                # NormalizeReactionName(cfg.REACTION_TRIGGER_EMOJI)
        THEN Ok(ledger, cache, <<>>, NoCheck)
        ELSE IF item.type # "message" THEN Ok(ledger, cache, <<>>, NoCheck)
        ELSE IF ~IsSet(item.channel) \/ ~IsSet(item.ts)
        THEN Ok(ledger, cache, <<>>, NoCheck)
        ELSE IF ChannelFiltered(item.channel, cfg) THEN Ok(ledger, cache, <<>>, NoCheck)
        ELSE ReactionAccepted(item, <<item.channel, item.ts>>, ledger, cache, cfg, env)

\* mutant: the reply is anchored at the edited message itself
EditAcceptedOwnTs(event, message_ts, ledger, cache, check, cfg, env) ==
    IF event.message.text = NonStr THEN Raised(ledger, cache, <<>>, check)
    ELSE IF event.message.text = None \/ Strip(event.message.text) = <<>>
    THEN Ok(ledger, cache, <<>>, check)
    ELSE TranslateAndPost(Strip(event.message.text), event.channel, message_ts,
                          ledger, cache, <<>>, check, cfg, env)

\* main.py:607-628: the edit was not handled before; ledger is _processed
\* after the check
EditAccepted(event, message_ts, ledger, cache, check, cfg, env) ==
    IF event.message.text = NonStr THEN Raised(ledger, cache, <<>>, check)
    ELSE IF event.message.text = None \/ Strip(event.message.text) = <<>>
    THEN Ok(ledger, cache, <<>>, check)
    ELSE TranslateAndPost(Strip(event.message.text), event.channel,
             Or(event.message.thread_ts, Or(event.previous_message.thread_ts, message_ts)),
             ledger, cache, <<>>, check, cfg, env)

\* mutant: an edit is handled again although its key is in the ledger
EditWithReactionNoDedup(event, message_ts, edit_marker, ledger, cache, cfg, env) ==
    LET key == <<event.channel, message_ts, "edit", edit_marker>>
    IN  IF edit_marker = ""
        THEN EditAccepted(event, message_ts, ledger, cache, NoCheck, cfg, env)
        ELSE EditAccepted(event, message_ts, MarkProcessed(ledger, key), cache,
                          <<"check", key, IsProcessed(ledger, key)>>, cfg, env)

\* main.py:601-628: the edited message carries the trigger reaction
EditWithReaction(event, message_ts, edit_marker, ledger, cache, cfg, env) ==
    LET key == <<event.channel, message_ts, "edit", edit_marker>>
    IN  IF edit_marker = ""
        THEN EditAccepted(event, message_ts, ledger, cache, NoCheck, cfg, env)
        ELSE IF IsProcessed(ledger, key)
        THEN Ok(ledger, cache, <<>>, <<"check", key, TRUE>>)
        ELSE EditAccepted(event, message_ts, MarkProcessed(ledger, key), cache,
                          <<"check", key, FALSE>>, cfg, env)

\* main.py:577-628: event type message, subtype message_changed, reaction mode
MessageChangedPath(event, ledger, cache, cfg, env) ==
    LET channel_id == event.channel
        edited_message == event.message
        previous_message == event.previous_message
        message_ts == Or(edited_message.ts, previous_message.ts)
        reactions == IF edited_message.reactions # None THEN edited_message.reactions
                     ELSE previous_message.reactions
    IN  IF ~IsSet(channel_id) \/ ~IsSet(message_ts)
        THEN Ok(ledger, cache, <<>>, NoCheck)
        ELSE IF ChannelFiltered(channel_id, cfg) THEN Ok(ledger, cache, <<>>, NoCheck)
        ELSE IF IsSet(edited_message.bot_id) \/ IsSet(previous_message.bot_id)
        THEN Ok(ledger, cache, <<>>, NoCheck)
        ELSE IF ~MessageHasReaction(reactions, cfg.REACTION_TRIGGER_EMOJI)
        THEN Ok(ledger, cache, <<>>, NoCheck)
        ELSE EditWithReaction(event, message_ts,
                              Or(edited_message.edited_ts, Or(event.event_ts, "")),
                              ledger, cache, cfg, env)

\* main.py:655-673: st is what _should_translate_and_strip returned
MessageTriggered(st, channel_id, ts, ledger, check, cfg, env) ==
    IF st.text = None THEN Ok(ledger, st.cache, st.calls, check)
    ELSE TranslateAndPost(st.text, channel_id, ts, ledger, st.cache, st.calls,
                          check, cfg, env)

\* main.py:650-673: a new user message in an allowed channel
MessageAccepted(text, key, ledger, cache, cfg, env) ==
    IF IsProcessed(ledger, key)
    THEN Ok(ledger, cache, <<>>, <<"check", key, TRUE>>)
    ELSE MessageTriggered(ShouldTranslateAndStrip(text, cache, cfg, env),
                          key[1], key[2], MarkProcessed(ledger, key),
                          <<"check", key, FALSE>>, cfg, env)

\* mutant: messages of bots and messages with a subtype are handled too
MessagePathAnySender(event, ledger, cache, cfg, env) ==
    IF event.type # "message" THEN Ok(ledger, cache, <<>>, NoCheck)
    ELSE IF cfg.TRANSLATE_TRIGGER = "reaction" THEN Ok(ledger, cache, <<>>, NoCheck)
    ELSE IF event.text = NonStr THEN Raised(ledger, cache, <<>>, NoCheck)
    ELSE IF ~IsSet(event.channel) \/ ~IsSet(event.ts)
            \/ event.text = None \/ Strip(event.text) = <<>>
    THEN Ok(ledger, cache, <<>>, NoCheck)
    ELSE IF ChannelFiltered(event.channel, cfg) THEN Ok(ledger, cache, <<>>, NoCheck)
    ELSE MessageAccepted(Strip(event.text), <<event.channel, event.ts>>,
                         ledger, cache, cfg, env)

\* main.py:630-673: a new message, trigger all / prefix / mention
MessagePath(event, ledger, cache, cfg, env) ==
    IF event.type # "message" THEN Ok(ledger, cache, <<>>, NoCheck)
    ELSE IF cfg.TRANSLATE_TRIGGER = "reaction" THEN Ok(ledger, cache, <<>>, NoCheck)
    ELSE IF IsSet(event.bot_id) \/ IsSet(event.subtype) THEN Ok(ledger, cache, <<>>, NoCheck)
    ELSE IF event.text = NonStr THEN Raised(ledger, cache, <<>>, NoCheck)
    ELSE IF ~IsSet(event.channel) \/ ~IsSet(event.ts)
            \/ event.text = None \/ Strip(event.text) = <<>>
    THEN Ok(ledger, cache, <<>>, NoCheck)
    ELSE IF ChannelFiltered(event.channel, cfg) THEN Ok(ledger, cache, <<>>, NoCheck)
    ELSE MessageAccepted(Strip(event.text), <<event.channel, event.ts>>,
                         ledger, cache, cfg, env)

\* main.py:525-673: the request is verified; dispatch on the event
Dispatch(data, ledger, cache, cfg, env) ==
    LET event == data.event
    IN  IF data.type # "event_callback" THEN Ok(ledger, cache, <<>>, NoCheck)
        ELSE IF event.shape = "string" THEN Raised(ledger, cache, <<>>, NoCheck)
        ELSE IF event.type = "reaction_added"
        THEN ReactionAddedPath(event, ledger, cache, cfg, env)
        ELSE IF event.type = "message" /\ event.subtype = "message_changed"
                /\ cfg.TRANSLATE_TRIGGER = "reaction"
        THEN MessageChangedPath(event, ledger, cache, cfg, env)
        ELSE MessagePath(event, ledger, cache, cfg, env)

\* mutant: the signature is verified before the url_verification challenge
SlackEventsVerifyFirst(req, bodies, ledger, cache, cfg, env, now) ==
    LET data == bodies[req.raw]
        verdict == VerifySlackRequest(req.raw, req.signature, req.timestamp, None,
                                      cfg.SLACK_SIGNING_SECRET, now)
    IN  IF data.json = "invalid"
        THEN Response(400, <<"text", "Bad Request">>, ledger, cache, <<>>, NoCheck)
        ELSE IF data.json # "object" THEN Raised(ledger, cache, <<>>, NoCheck)
        ELSE IF verdict \in {"TypeError", "OverflowError"}
        THEN Raised(ledger, cache, <<>>, NoCheck)
        ELSE IF verdict # "True"
        THEN Response(403, <<"text", "Forbidden">>, ledger, cache, <<>>, NoCheck)
        ELSE IF data.type = "url_verification" THEN
            IF data.challenge # Null
            THEN Response(200, <<"json", "challenge", data.challenge>>,
                          ledger, cache, <<>>, NoCheck)
            ELSE Response(400, <<"text", "Bad Request">>, ledger, cache, <<>>, NoCheck)
        ELSE Dispatch(data, ledger, cache, cfg, env)

\* slack_events after `await request.body()`: main.py:502-673.
\* req = [raw, signature, timestamp]: the raw body and the two headers;
\* bodies[raw] is what json.loads makes of the raw body.
SlackEvents(req, bodies, ledger, cache, cfg, env, now) ==
    LET data == bodies[req.raw]
        verdict == VerifySlackRequest(req.raw, req.signature, req.timestamp, None,
                                      cfg.SLACK_SIGNING_SECRET, now)
    IN  IF data.json = "invalid"
        THEN Response(400, <<"text", "Bad Request">>, ledger, cache, <<>>, NoCheck)
        \* data.get on a list, str, number or None: AttributeError
        ELSE IF data.json # "object" THEN Raised(ledger, cache, <<>>, NoCheck)
        ELSE IF data.type = "url_verification" THEN
            IF data.challenge # Null
            THEN Response(200, <<"json", "challenge", data.challenge>>,
                          ledger, cache, <<>>, NoCheck)
            ELSE Response(400, <<"text", "Bad Request">>, ledger, cache, <<>>, NoCheck)
        ELSE IF verdict \in {"TypeError", "OverflowError"}
        THEN Raised(ledger, cache, <<>>, NoCheck)
        ELSE IF verdict # "True"
        THEN Response(403, <<"text", "Forbidden">>, ledger, cache, <<>>, NoCheck)
        ELSE Dispatch(data, ledger, cache, cfg, env)

(***************************************************************************)
(* The requests, configurations and remote answers explored                *)
(***************************************************************************)
HI == <<"h", "i">>
TWO_LINES == <<"a", "\n", "b">>
PREFIXED == <<"#", "t", " ", "h", "i">>
MENTIONING == <<"<", "@", "U", "1", ">", " ", "h", "i">>
DE == <<"d", "e">>
OLD_TEXT == <<"o", "l", "d">>
\* a reactions list with the trigger emoji
TRIGGERED == <<"list", <<[name |-> DE, count |-> <<"int", 1>>]>> >>

NoMessage ==
    [ts |-> Null, thread_ts |-> Null, text |-> None, bot_id |-> Null,
     reactions |-> None, edited_ts |-> Null]
NoItem == [type |-> Null, channel |-> Null, ts |-> Null, thread_ts |-> Null]
NoEvent ==
    [shape |-> "absent", type |-> Null, subtype |-> Null, bot_id |-> Null,
     channel |-> Null, ts |-> Null, text |-> None, reaction |-> None,
     item |-> NoItem, message |-> NoMessage, previous_message |-> NoMessage,
     event_ts |-> Null]

Payload(json, type, challenge, event) ==
    [json |-> json, type |-> type, challenge |-> challenge, event |-> event]

\* {"type": "event_callback", "event": event}
EventCallback(event) == Payload("object", "event_callback", Null, event)

\* {"type": "message", "channel": ..., "ts": ..., "text": ...}
MessageEvent(channel, ts, text) ==
    [NoEvent EXCEPT !.shape = "object", !.type = "message", !.channel = channel,
                    !.ts = ts, !.text = text]

\* {"type": "reaction_added", "reaction": ..., "item": {"type": "message", ...}}
ReactionEvent(reaction, channel, ts, thread_ts) ==
    [NoEvent EXCEPT !.shape = "object", !.type = "reaction_added",
                    !.reaction = reaction,
                    !.item = [type |-> "message", channel |-> channel, ts |-> ts,
                              thread_ts |-> thread_ts]]

\* {"type": "message", "subtype": "message_changed", "message": ..., ...}
MessageChangedEvent(channel, ts, text, reactions, edited_ts) ==
    [NoEvent EXCEPT !.shape = "object", !.type = "message",
                    !.subtype = "message_changed", !.channel = channel,
                    !.event_ts = "1700000000.2222",
                    !.message = [ts |-> ts, thread_ts |-> "110.000", text |-> text,
                                 bot_id |-> Null, reactions |-> reactions,
                                 edited_ts |-> edited_ts],
                    !.previous_message = [NoMessage EXCEPT !.ts = ts,
                                              !.text = OLD_TEXT,
                                              !.thread_ts = "110.000"]]

\* the raw bodies explored, each with what json.loads makes of it
Bodies == <<
    Payload("invalid", Null, Null, NoEvent),
    Payload("array", Null, Null, NoEvent),
    Payload("object", "url_verification", "abc", NoEvent),
    Payload("object", "url_verification", Null, NoEvent),
    Payload("object", "app_rate_limited", Null, NoEvent),
    EventCallback(NoEvent),
    EventCallback([NoEvent EXCEPT !.shape = "string"]),
    EventCallback([NoEvent EXCEPT !.shape = "object", !.type = "app_mention"]),
    EventCallback(MessageEvent("C1", "111.000", TWO_LINES)),
    EventCallback(MessageEvent("C1", "111.000", PREFIXED)),
    EventCallback(MessageEvent("C1", "111.001", MENTIONING)),
    EventCallback(MessageEvent("C2", "111.000", HI)),
    EventCallback(MessageEvent("C2", "111.001", HI)),
    EventCallback([MessageEvent("C1", "111.001", HI) EXCEPT !.bot_id = "B1"]),
    EventCallback([MessageEvent("C1", "111.001", HI) EXCEPT !.subtype = "channel_join"]),
    EventCallback(MessageEvent("C1", "111.001", NonStr)),
    EventCallback(MessageEvent("C1", "111.001", <<" ">>)),
    EventCallback(ReactionEvent(DE, "C1", "111.001", Null)),
    EventCallback(ReactionEvent(<<"x">>, "C1", "111.001", Null)),
    EventCallback(ReactionEvent(NonStr, "C1", "111.001", Null)),
    EventCallback(MessageChangedEvent("C1", "111.001", TWO_LINES, TRIGGERED,
        "1700000000.1111")),
    EventCallback(MessageChangedEvent("C1", "111.001", HI, <<"list", <<>> >>,
        "1700000000.1111")),
    \* 23-26: reactions with a parent hint, another spelling, on a file, in C2
    EventCallback(ReactionEvent(DE, "C1", "111.001", "111.000")),
    EventCallback(ReactionEvent(<<" ", "D", "_", "E">>, "C1", "111.001", Null)),
    EventCallback([ReactionEvent(DE, "C1", "111.001", Null)
                      EXCEPT !.item.type = "file"]),
    EventCallback(ReactionEvent(DE, "C2", "111.001", Null)),
    \* 27: an edit whose message carries no reactions list
    EventCallback([MessageChangedEvent("C1", "111.001", HI, None, "1700000000.1111")
                      EXCEPT !.previous_message.reactions = TRIGGERED]),
    \* 28-29: the trigger emoji without a count, and with count 0
    EventCallback(MessageChangedEvent("C1", "111.001", HI,
        <<"list", <<[name |-> DE, count |-> <<"absent">>]>> >>, "1700000000.1111")),
    EventCallback(MessageChangedEvent("C1", "111.001", HI,
        <<"list", <<[name |-> DE, count |-> <<"int", 0>>],
                    [name |-> <<"x">>, count |-> <<"int", 2>>]>> >>,
        "1700000000.1111")),
    \* 30: a later edit of the same message
    EventCallback(MessageChangedEvent("C1", "111.001", HI, TRIGGERED,
        "1700000000.3333")),
    \* 31: an edit with neither edited.ts nor event_ts
    EventCallback([MessageChangedEvent("C1", "111.001", HI, TRIGGERED, Null)
                      EXCEPT !.event_ts = Null]),
    \* 32-33: the thread timestamp on the previous message only, on neither
    EventCallback([MessageChangedEvent("C1", "111.001", HI, TRIGGERED,
                                       "1700000000.4444")
                      EXCEPT !.message.thread_ts = Null]),
    EventCallback([MessageChangedEvent("C1", "111.001", HI, TRIGGERED,
                                       "1700000000.5555")
                      EXCEPT !.message.thread_ts = Null,
                             !.previous_message.thread_ts = Null]),
    \* 34-37: the prefix in another case, with nothing after it, not at the
    \* start, and after leading whitespace without a separator
    EventCallback(MessageEvent("C1", "111.000", <<"#", "T", " ", "h", "i">>)),
    EventCallback(MessageEvent("C1", "111.000", <<"#", "t", " ">>)),
    EventCallback(MessageEvent("C1", "111.001", <<"x", " ", "#", "t", " ", "h", "i">>)),
    EventCallback(MessageEvent("C1", "111.001", <<" ", "#", "t", "h", "i">>)),
    \* 38: a mention and nothing else
    EventCallback(MessageEvent("C1", "111.001", <<"<", "@", "U", "1", ">">>))
>>

\* the bodies the general specification sends
GeneralBodies == {i \in 1..Len(Bodies) : i <= 22}

FreshTs == <<"int", 1000, "plain">>

\* a request signed by Slack with the secret "s1"
Signed(raw) ==
    [raw |-> raw, signature |-> ComputedSignature("s1", FreshTs, raw),
     timestamp |-> FreshTs]

\* requests that are not correctly signed: missing headers, a signature with a
\* non-ASCII character, a correctly signed but stale timestamp, a signature
\* computed for another body
BadlySigned(raw) ==
    {[raw |-> raw, signature |-> None, timestamp |-> None],
     [raw |-> raw, signature |-> <<"nonascii">>, timestamp |-> FreshTs],
     [raw |-> raw, signature |-> ComputedSignature("s1", StaleTs, raw),
      timestamp |-> StaleTs],
     [raw |-> raw, signature |-> ComputedSignature("s1", FreshTs, raw + 1),
      timestamp |-> FreshTs]}

\* the bodies that are also sent badly signed: invalid JSON, url_verification,
\* another payload type, a plain message
UnsignedBodies == {i \in GeneralBodies :
    \/ Bodies[i].json = "invalid"
    \/ Bodies[i].type \in {"url_verification", "app_rate_limited"} /\ Bodies[i].challenge # Null
    \/ Bodies[i].type = "app_rate_limited"
    \/ Bodies[i].event.text = TWO_LINES /\ Bodies[i].event.subtype = Null}

Requests ==
    {Signed(raw) : raw \in GeneralBodies}
    \cup UNION {BadlySigned(raw) : raw \in UnsignedBodies}

Configs ==
    {BaseConfig,
     [BaseConfig EXCEPT !.SLACK_SIGNING_SECRET = ""],
     [BaseConfig EXCEPT !.CHANNEL_IDS_LIST = {"C1"}],
     [BaseConfig EXCEPT !.SLACK_BOT_TOKEN = "", !.DEEPL_API_KEY = ""],
     [BaseConfig EXCEPT !.TRANSLATE_TRIGGER = "prefix"],
     [BaseConfig EXCEPT !.TRANSLATE_TRIGGER = "mention"],
     [BaseConfig EXCEPT !.TRANSLATE_TRIGGER = "reaction"]}

\* the messages Slack holds: a thread root, the reply the reactions are on,
\* an older thread root
ROOT == SlackMsg("111.000", HI, "111.000", <<"int", 2>>)
REPLY == SlackMsg("111.001", TWO_LINES, "111.000", <<"absent">>)
OLDER == SlackMsg("110.000", HI, "110.000", <<"int", 1>>)
\* the target as a message outside any thread
STANDALONE == SlackMsg("111.001", HI, Null, <<"absent">>)
\* the reply as a page lists it when Slack renders its timestamp otherwise
REPLY_FLOAT == SlackMsg("111.0010", HI, "111.000", <<"absent">>)
\* the target without text (a file upload)
NO_TEXT == SlackMsg("111.001", None, "111.000", <<"absent">>)
\* 30 threads newer than the target's own: a history page on which the
\* target's parent is the 31st message with replies
CROWD ==
    [i \in 1..MAX_CANDIDATES |->
        SlackMsg(ToString(200 + i) \o ".000", HI, Null, <<"int", 1>>)]
\* answers that never end: every page comes with a cursor to the next
ENDLESS_PAGES ==
    <<OkPage(<<>>, TRUE), OkPage(<<>>, TRUE), OkPage(<<>>, TRUE), OkPage(<<>>, TRUE),
      OkPage(<<>>, TRUE), OkPage(<<>>, TRUE)>>
EndlessThreads ==
    [a \in {"111.000", "111.001"} \cup {CROWD[i].ts : i \in 1..MAX_CANDIDATES} |->
        ENDLESS_PAGES]
EndlessHistory ==
    <<OkPage(CROWD, TRUE), OkPage(CROWD, TRUE), OkPage(CROWD, TRUE),
      OkPage(CROWD, TRUE), OkPage(CROWD, TRUE)>>

Api(exact, replies, history) ==
    [exact |-> exact, replies |-> replies, history |-> history]
\* conversations.replies knows no thread
NoThreads == [a \in {} |-> <<>>]
Thread(anchor_ts, pages) == [a \in {anchor_ts} |-> pages]

\* the target is a channel message: the exact-timestamp query returns it
InHistory == Api(OkPage(<<STANDALONE>>, FALSE), NoThreads, <<>>)
\* the target is a thread reply, found by the scan anchored at itself
InThread ==
    Api(OkPage(<<>>, FALSE), Thread("111.001", <<OkPage(<<ROOT, REPLY>>, FALSE)>>),
        <<>>)
\* Slack knows nothing of the target
Unknown == Api(OkPage(<<>>, FALSE), NoThreads, <<>>)
\* the scan anchored at the target is rate limited
DirectRateLimited ==
    Api(OkPage(<<>>, FALSE), Thread("111.001", <<RateLimited>>), <<>>)
\* the exact-timestamp query is rate limited, the thread scan is not
ExactRateLimited ==
    Api(RateLimited, Thread("111.001", <<OkPage(<<ROOT, REPLY>>, FALSE)>>), <<>>)
\* only the parent's thread lists the target, on its second page
InParentThread ==
    Api(ErrorPage,
        Thread("111.000", <<OkPage(<<ROOT>>, TRUE), OkPage(<<REPLY_FLOAT>>, FALSE)>>),
        <<OkPage(<<OLDER, ROOT>>, FALSE)>>)
\* the scan anchored at the target lists it without a thread timestamp
Unthreaded ==
    Api(ErrorPage, Thread("111.001", <<OkPage(<<STANDALONE>>, FALSE)>>), <<>>)

\* what the remote services answer during one request
Envs ==
    {[translate |-> <<"EN", "EN">>, post |-> "ok", auth |-> <<"U", "1">>,
      fetch |-> InThread],
     [translate |-> <<"error", "EN">>, post |-> "fail", auth |-> None,
      fetch |-> Unknown],
     [translate |-> <<"FR", "FR">>, post |-> "ok", auth |-> <<"U", "1">>,
      fetch |-> InHistory]}

\* the reaction specification: reaction_added events, signed, in reaction
\* mode (and, for comparison, in mode "all")
ReactionBodies == {i \in 1..Len(Bodies) : Bodies[i].event.type = "reaction_added"}
ReactionRequests == {Signed(raw) : raw \in ReactionBodies}
ReactionMode == [BaseConfig EXCEPT !.TRANSLATE_TRIGGER = "reaction"]
ReactionConfigs ==
    {ReactionMode,
     [ReactionMode EXCEPT !.CHANNEL_IDS_LIST = {"C1"}],
     [ReactionMode EXCEPT !.REACTION_TRIGGER_EMOJI = <<"d", "-", "e">>],
     BaseConfig}
ReactionEnvs ==
    {[translate |-> <<"EN", "EN">>, post |-> "ok", auth |-> None, fetch |-> InThread],
     [translate |-> <<"EN", "EN">>, post |-> "ok", auth |-> None, fetch |-> InHistory],
     [translate |-> <<"FR", "FR">>, post |-> "fail", auth |-> None,
      fetch |-> DirectRateLimited],
     [translate |-> <<"EN", "EN">>, post |-> "ok", auth |-> None,
      fetch |-> ExactRateLimited],
     [translate |-> <<"error", "EN">>, post |-> "ok", auth |-> None,
      fetch |-> InParentThread],
     [translate |-> <<"EN", "EN">>, post |-> "ok", auth |-> None, fetch |-> Unthreaded],
     [translate |-> <<"EN", "EN">>, post |-> "ok", auth |-> None, fetch |-> Unknown]}

\* the edit specification: message_changed events, signed, in reaction mode
EditBodies == {i \in 1..Len(Bodies) : Bodies[i].event.subtype = "message_changed"}
EditRequests == {Signed(raw) : raw \in EditBodies}
EditConfigs == {ReactionMode, [ReactionMode EXCEPT !.SLACK_BOT_TOKEN = ""]}
EditEnvs ==
    {[translate |-> <<"EN", "EN">>, post |-> "ok", auth |-> None, fetch |-> Unknown],
     [translate |-> <<"FR", "error">>, post |-> "fail", auth |-> None,
      fetch |-> Unknown]}

\* the resolver specification: one _fetch_message("C1", "111.001", hint) call
\* against each combination of remote answers
ExactAnswers ==
    {OkPage(<<STANDALONE>>, FALSE), OkPage(<<NO_TEXT>>, FALSE), OkPage(<<>>, FALSE),
     ErrorPage, RateLimited, Raises, Unparsable}
RepliesAnswers ==
    {NoThreads,
     Thread("111.001", <<OkPage(<<ROOT, REPLY>>, FALSE)>>),
     Thread("111.001", <<RateLimited>>),
     Thread("111.001", <<Raises>>),
     Thread("111.001", <<OkPage(<<ROOT>>, TRUE), OkPage(<<REPLY>>, FALSE)>>),
     Thread("111.001", <<OkPage(<<NO_TEXT>>, FALSE)>>),
     Thread("111.001", <<OkPage(<<STANDALONE>>, FALSE)>>),
     Thread("111.000", <<OkPage(<<ROOT>>, TRUE), OkPage(<<REPLY_FLOAT>>, FALSE)>>),
     Thread("111.000", <<OkPage(<<ROOT>>, TRUE), RateLimited>>),
     Thread("111.000", <<OkPage(<<ROOT>>, TRUE), OkPage(<<ROOT>>, TRUE),
                         OkPage(<<ROOT>>, TRUE), OkPage(<<ROOT>>, TRUE),
                         OkPage(<<REPLY>>, FALSE)>>),
     Thread("110.000", <<OkPage(<<OLDER, REPLY>>, FALSE)>>),
     Thread("110.000", <<OkPage(<<OLDER, NO_TEXT>>, FALSE)>>),
     Thread("111.001", <<InvalidArguments(OkPage(<<ROOT, REPLY>>, FALSE))>>),
     Thread("111.001", <<InvalidArguments(InvalidArguments(ErrorPage))>>)
         @@ Thread("110.000", <<OkPage(<<OLDER, REPLY>>, FALSE)>>),
     Thread("111.001", <<Unparsable>>)
         @@ Thread("110.000", <<OkPage(<<OLDER, REPLY>>, FALSE)>>),
     EndlessThreads}
HistoryAnswers ==
    {<<>>, <<RateLimited>>, <<Raises>>,
     <<OkPage(<<OLDER, ROOT>>, FALSE)>>,
     <<OkPage(<<ROOT>>, TRUE), RateLimited>>,
     <<OkPage(<<ROOT>>, TRUE), OkPage(<<OLDER>>, FALSE)>>,
     <<OkPage(<<SlackMsg("110.000", HI, Null, <<"absent">>),
                SlackMsg("111.000", HI, Null, None)>>, FALSE)>>,
     <<OkPage(<<>>, FALSE)>>,
     <<OkPage(<<OLDER>>, TRUE), OkPage(<<>>, TRUE), OkPage(<<>>, TRUE),
       OkPage(<<>>, TRUE), OkPage(<<ROOT>>, FALSE)>>,
     <<OkPage(CROWD \o <<ROOT>>, FALSE)>>,
     EndlessHistory}
Hints == {Null, "111.000", "111.001"}
ResolveConfigs ==
    {BaseConfig,
     [BaseConfig EXCEPT !.SLACK_BOT_TOKEN = ""],
     [BaseConfig EXCEPT !.SLACK_USER_TOKEN = "xoxp"],
     [BaseConfig EXCEPT !.SLACK_BOT_TOKEN = "", !.SLACK_USER_TOKEN = "xoxp"]}
ResolveInputs ==
    {[api |-> Api(e, r, h), thread_ts |-> t, cfg |-> c] :
        e \in ExactAnswers, r \in RepliesAnswers, h \in HistoryAnswers,
        t \in Hints, c \in ResolveConfigs}

\* the trigger specification: new user messages in C1, signed, in prefix and
\* in mention mode
TriggerBodies ==
    {i \in 1..Len(Bodies) :
        /\ Bodies[i].event.type = "message"
        /\ Bodies[i].event.subtype = Null
        /\ Bodies[i].event.bot_id = Null
        /\ Bodies[i].event.channel = "C1"
        /\ Bodies[i].event.text \notin {None, NonStr}}
TriggerRequests == {Signed(raw) : raw \in TriggerBodies}
PrefixMode == [BaseConfig EXCEPT !.TRANSLATE_TRIGGER = "prefix"]
MentionMode == [BaseConfig EXCEPT !.TRANSLATE_TRIGGER = "mention"]
TriggerConfigs ==
    {PrefixMode,
     [PrefixMode EXCEPT !.TRANSLATE_PREFIX = <<>>],
     MentionMode,
     [MentionMode EXCEPT !.SLACK_BOT_TOKEN = ""]}
TriggerEnvs ==
    {[translate |-> <<"EN", "EN">>, post |-> "ok", auth |-> <<"U", "1">>,
      fetch |-> Unknown],
     [translate |-> <<"FR", "error">>, post |-> "fail", auth |-> None,
      fetch |-> Unknown],
     [translate |-> <<"EN", "EN">>, post |-> "ok", auth |-> <<"U", "2">>,
      fetch |-> Unknown]}

\* the shaper specification: texts made of up to MaxTokens of these tokens
ShaperTokens ==
    {<<":", "a", ":">>, <<":", EMOJI_PLACEHOLDER, "1", ":">>, <<"a">>, <<" ">>,
     <<"\n">>, <<"a", "\n">>, <<"p", "t", ":">>, <<"T", ":">>}
RECURSIVE TextsOf(_)
TextsOf(n) ==
    IF n = 0 THEN {<<>>}
    ELSE TextsOf(n - 1) \cup {t \o k : t \in TextsOf(n - 1), k \in ShaperTokens}
ShaperTexts == TextsOf(MaxTokens)
ShaperPhrases == {EXTRACT_PHRASES_LIST, <<>>}

\* the concurrent specification: plain messages on two keys, signed
ConcurrentRequests ==
    {Signed(raw) : raw \in {i \in 1..Len(Bodies) :
        /\ Bodies[i].event.type = "message"
        /\ Bodies[i].event.subtype = Null
        /\ Bodies[i].event.bot_id = Null
        /\ Bodies[i].event.channel = "C1"
        /\ Bodies[i].event.text \in {TWO_LINES, PREFIXED, MENTIONING}}}

ConcurrentConfigs == {c \in Configs : c.TRANSLATE_TRIGGER = "all"}

(***************************************************************************)
(* Receiving requests                                                      *)
(***************************************************************************)
Flows == {"f1", "f2"}
\* no request was handled yet
IdleEnv == [translate |-> <<"EN", "EN">>, post |-> "ok", auth |-> None,
            fetch |-> Unknown]
Idle == [raw |-> 0, signature |-> None, timestamp |-> None]

NoStats == [checks |-> 0, misses |-> 0, resolves |-> 0, translated |-> 0,
            provider |-> 0, posts |-> 0, overlapped |-> FALSE]

StatsOf(key) == IF key \in DOMAIN stats THEN stats[key] ELSE NoStats

CountCalls(calls, kind) == Cardinality({i \in 1..Len(calls) : calls[i][1] = kind})

\* the statistics after a request with outcome r; overlap: another flow was
\* awaiting the same raw body when this request was handled
StatsAfter(r, old, overlap) ==
    [checks |-> old.checks + 1,
     misses |-> old.misses + (IF r.check[3] THEN 0 ELSE 1),
     resolves |-> old.resolves
         + (IF CountCalls(r.calls, "conversations.history")
                   + CountCalls(r.calls, "conversations.replies") > 0
            THEN 1 ELSE 0),
     translated |-> old.translated
         + (IF CountCalls(r.calls, "translate") > 0 THEN 1 ELSE 0),
     provider |-> old.provider + CountCalls(r.calls, "translate"),
     posts |-> old.posts + CountCalls(r.calls, "post"),
     overlapped |-> old.overlapped \/ overlap]

\* the state after a request req with outcome r
Commit(req, env, r, overlap) ==
    /\ processed' = r.ledger
    /\ bot_user_id' = r.cache
    /\ last' = [req |-> req, env |-> env, result |-> r,
                ledger_before |-> processed, cache_before |-> bot_user_id]
    /\ stats' = IF r.check = NoCheck THEN stats
                ELSE [k \in DOMAIN stats \cup {r.check[2]} |->
                        IF k = r.check[2]
                        THEN StatsAfter(r, StatsOf(r.check[2]), overlap)
                        ELSE stats[k]]
    /\ evicted' = evicted \cup (Range(processed) \ Range(r.ledger))

\* the state after the handler ran on req with the remote answers env
Handled(req, env, overlap) ==
    Commit(req, env, SlackEvents(req, Bodies, processed, bot_user_id, config, env, 1000),
           overlap)

\* one webhook request, received and handled to its response
Deliver ==
    /\ delivered < MaxDeliveries
    /\ delivered' = delivered + 1
    /\ \E req \in Requests, env \in Envs : Handled(req, env, FALSE)
    /\ UNCHANGED <<config, inflight, ledgerVars, verifyVars, resolveVars, shapeVars>>

\* one message_changed request, handled to its response
DeliverEdit ==
    /\ delivered < MaxEditDeliveries
    /\ delivered' = delivered + 1
    /\ \E req \in EditRequests, env \in EditEnvs : Handled(req, env, FALSE)
    /\ UNCHANGED <<config, inflight, ledgerVars, verifyVars, resolveVars, shapeVars>>

\* one reaction_added request, handled to its response
DeliverReaction ==
    /\ delivered < MaxReactionDeliveries
    /\ delivered' = delivered + 1
    /\ \E req \in ReactionRequests, env \in ReactionEnvs : Handled(req, env, FALSE)
    /\ UNCHANGED <<config, inflight, ledgerVars, verifyVars, resolveVars, shapeVars>>

\* one new-message request, handled to its response
DeliverMessage ==
    /\ delivered < MaxTriggerDeliveries
    /\ delivered' = delivered + 1
    /\ \E req \in TriggerRequests, env \in TriggerEnvs : Handled(req, env, FALSE)
    /\ UNCHANGED <<config, inflight, ledgerVars, verifyVars, resolveVars, shapeVars>>

\* _restore_slack_emojis(*_replace_slack_emojis_for_translation(text))
ProtectRestore ==
    /\ shapeOut.op = "none"
    /\ shapeOut' = [op |-> "emoji",
                    result |-> RestoreSlackEmojis(ReplaceSlackEmojis(shapeIn.text).text,
                                   ReplaceSlackEmojis(shapeIn.text).shortcodes)]
    /\ UNCHANGED <<processed, routerVars, ledgerVars, verifyVars, resolveVars, shapeIn>>

\* _extract_content_to_translate(text)
ExtractCall ==
    /\ shapeOut.op = "none"
    /\ shapeOut' = [op |-> "extract",
                    result |-> ExtractContentToTranslate(shapeIn.text, shapeIn.phrases)]
    /\ UNCHANGED <<processed, routerVars, ledgerVars, verifyVars, resolveVars, shapeIn>>

\* _split_headline_body(text)
SplitCall ==
    /\ shapeOut.op = "none"
    /\ shapeOut' = [op |-> "split", result |-> SplitHeadlineBody(shapeIn.text)]
    /\ UNCHANGED <<processed, routerVars, ledgerVars, verifyVars, resolveVars, shapeIn>>

\* what DeepL may answer for a part: see env.translate
TranslateOutcomes == {"EN", "FR", "error"}

\* the outcome of one _translate_headline_and_body call, with DeepL's answers
Orchestrated(outcomes, r) ==
    [outcomes |-> outcomes, value |-> r.value, calls |-> r.calls]

\* _translate_headline_and_body(text), DeepL answering the headline and the
\* body either way
OrchestrateCall ==
    /\ shapeOut.op = "none"
    /\ \E outcomes \in TranslateOutcomes \X TranslateOutcomes :
          shapeOut' = [op |-> "translate",
                       result |-> Orchestrated(outcomes,
                                      TranslateHeadlineAndBody(shapeIn.text, config,
                                                               outcomes))]
    /\ UNCHANGED <<processed, routerVars, ledgerVars, verifyVars, resolveVars, shapeIn>>

\* one call of _fetch_message
ResolveCall ==
    /\ ~resolveOut.done
    /\ resolveOut' = [done |-> TRUE,
                      result |-> FetchMessage("C1", "111.001", resolveIn.thread_ts,
                                              resolveIn.cfg, [fetch |-> resolveIn.api])]
    /\ UNCHANGED <<processed, routerVars, ledgerVars, verifyVars, resolveIn, shapeVars>>

\* main.py:495-501: flow f receives a request and awaits its body; only here
\* can the event loop run another flow
Arrive(f) ==
    /\ inflight[f] = Idle
    /\ delivered < MaxDeliveries
    /\ delivered' = delivered + 1
    /\ \E req \in ConcurrentRequests : inflight' = [inflight EXCEPT ![f] = req]
    /\ UNCHANGED <<processed, bot_user_id, config, last, stats, evicted,
                   ledgerVars, verifyVars, resolveVars, shapeVars>>

\* main.py:502-673: the rest of slack_events has no await: it runs to its
\* response without another flow running in between
Handle(f) ==
    /\ inflight[f] # Idle
    /\ inflight' = [inflight EXCEPT ![f] = Idle]
    /\ \E env \in Envs :
          Handled(inflight[f], env,
                  \E g \in Flows \ {f} : inflight[g].raw = inflight[f].raw)
    /\ UNCHANGED <<config, delivered, ledgerVars, verifyVars, resolveVars, shapeVars>>

(***************************************************************************)
(* Specifications                                                          *)
(***************************************************************************)
InitLedger == processed = <<>> /\ ledgerLog = <<>>
IdleVerify ==
    /\ verifyIn = [body |-> "b1", signature |-> None, timestamp |-> None,
                   max_age_seconds |-> None, secret |-> "", now |-> 1000]
    /\ verifyOut = "idle"
IdleResolve ==
    /\ resolveIn = [api |-> Unknown, thread_ts |-> Null, cfg |-> BaseConfig]
    /\ resolveOut = [done |-> FALSE, result |-> NotFound(<<>>)]
IdleShaper ==
    /\ shapeIn = [text |-> <<>>, phrases |-> <<>>]
    /\ shapeOut = [op |-> "none", result |-> <<>>]
IdleRouter ==
    /\ bot_user_id = None
    /\ inflight = [f \in Flows |-> Idle]
    /\ delivered = 0
    /\ last = [req |-> Idle, env |-> IdleEnv,
               result |-> Response(0, <<"text", "">>, <<>>, None, <<>>, NoCheck),
               ledger_before |-> <<>>, cache_before |-> None]
    /\ stats = [k \in {} |-> NoStats]
    /\ evicted = {}

\* the process after start-up, handling one request after the other
Init == InitLedger /\ IdleVerify /\ IdleResolve /\ IdleShaper /\ IdleRouter /\ config \in Configs
Next == Deliver
Spec == Init /\ [][Next]_vars

\* two flows of the event loop handling plain message events concurrently
ConcurrentInit ==
    InitLedger /\ IdleVerify /\ IdleResolve /\ IdleShaper /\ IdleRouter /\ config \in ConcurrentConfigs
ConcurrentNext == \E f \in Flows : Arrive(f) \/ Handle(f)
SpecConcurrent == ConcurrentInit /\ [][ConcurrentNext]_vars

\* the ledger alone: any sequence of _already_processed calls
LedgerInit ==
    InitLedger /\ IdleVerify /\ IdleResolve /\ IdleShaper /\ IdleRouter /\ config = BaseConfig
LedgerNext == \E key \in LedgerKeys : AlreadyProcessed(key)
SpecLedger == LedgerInit /\ [][LedgerNext]_vars

\* the authenticator alone: one call on each combination of arguments
VerifyInit ==
    /\ InitLedger /\ IdleResolve /\ IdleShaper /\ IdleRouter /\ config = BaseConfig
    /\ verifyIn \in VerifyInputs /\ verifyOut = "pending"
VerifyNext == VerifyCall
SpecVerify == VerifyInit /\ [][VerifyNext]_vars

\* the process in reaction mode, handling edits of messages
EditInit ==
    InitLedger /\ IdleVerify /\ IdleResolve /\ IdleShaper /\ IdleRouter /\ config \in EditConfigs
EditNext == DeliverEdit
SpecEdit == EditInit /\ [][EditNext]_vars

\* the process handling reactions
ReactionInit ==
    InitLedger /\ IdleVerify /\ IdleResolve /\ IdleShaper /\ IdleRouter /\ config \in ReactionConfigs
ReactionNext == DeliverReaction
SpecReaction == ReactionInit /\ [][ReactionNext]_vars

\* the resolver alone: one call on each combination of remote answers
ResolveInit ==
    /\ InitLedger /\ IdleVerify /\ IdleShaper /\ IdleRouter /\ config = BaseConfig
    /\ resolveIn \in ResolveInputs
    /\ resolveOut = [done |-> FALSE, result |-> NotFound(<<>>)]
ResolveNext == ResolveCall
SpecResolve == ResolveInit /\ [][ResolveNext]_vars

\* the process in prefix or mention mode, handling new messages
TriggerInit ==
    InitLedger /\ IdleVerify /\ IdleResolve /\ IdleShaper /\ IdleRouter
    /\ config \in TriggerConfigs
TriggerNext == DeliverMessage
SpecTrigger == TriggerInit /\ [][TriggerNext]_vars

\* the content shaper alone: one call of one of its functions on each text
ShaperInit ==
    /\ InitLedger /\ IdleVerify /\ IdleResolve /\ IdleRouter /\ config = BaseConfig
    /\ shapeIn \in [text : ShaperTexts, phrases : ShaperPhrases]
    /\ shapeOut = [op |-> "none", result |-> <<>>]
ShaperNext == ProtectRestore \/ ExtractCall \/ SplitCall
SpecShaper == ShaperInit /\ [][ShaperNext]_vars

\* the orchestration alone: one _translate_headline_and_body call on each text
OrchestrateInit ==
    /\ InitLedger /\ IdleVerify /\ IdleResolve /\ IdleRouter /\ config = BaseConfig
    /\ shapeIn \in [text : ShaperTexts, phrases : {<<>>}]
    /\ shapeOut = [op |-> "none", result |-> <<>>]
OrchestrateNext == OrchestrateCall
SpecOrchestrate == OrchestrateInit /\ [][OrchestrateNext]_vars

(***************************************************************************)
(* Claims about the dedup ledger (SpecLedger)                              *)
(***************************************************************************)
\* distinct keys other than k inserted by the calls strictly between i and j
InsertedBetween(i, j, k) ==
    {ledgerLog[m].key : m \in {n \in (i + 1)..(j - 1) :
                                  ~ledgerLog[n].seen /\ ledgerLog[n].key # k}}

\* C3: the first checkAndMark of a key returns false and marks the key; every
\* later checkAndMark of it returns true as long as fewer than capacity other
\* distinct keys were inserted since it was marked.
C3_FirstMissThenHit ==
    \A j \in 1..Len(ledgerLog) :
        LET k == ledgerLog[j].key
            earlier == {i \in 1..(j - 1) : ledgerLog[i].key = k}
        IN  /\ earlier = {} =>
                  ~ledgerLog[j].seen /\ k \in Range(ledgerLog[j].after)
            /\ \A i \in earlier :
                  (~ledgerLog[i].seen
                   /\ Cardinality(InsertedBetween(i, j, k)) < MAX_IDEMPOTENCY_SIZE)
                  => ledgerLog[j].seen

\* a key is marked, another key is inserted, and the first key is then a hit
C3_Witness ==
    \E i, j \in 1..Len(ledgerLog) :
        /\ i < j
        /\ ledgerLog[i].key = ledgerLog[j].key
        /\ ~ledgerLog[i].seen
        /\ ledgerLog[j].seen
        /\ InsertedBetween(i, j, ledgerLog[i].key) # {}

\* C4: after any checkAndMark the ledger holds at most capacity entries.
C4_SizeBounded == Len(processed) <= MAX_IDEMPOTENCY_SIZE

\* a key was inserted into a full ledger
C4_Witness ==
    /\ Len(processed) = MAX_IDEMPOTENCY_SIZE
    /\ \E j \in 1..Len(ledgerLog) :
          ~ledgerLog[j].seen /\ Len(ledgerLog[j].before) = MAX_IDEMPOTENCY_SIZE

\* the keys of the calls that missed, in call order
InsertedKeys ==
    LET misses == SelectSeq(ledgerLog, LAMBDA e : ~e.seen)
    IN  [i \in 1..Len(misses) |-> misses[i].key]

LastN(s, n) == IF Len(s) <= n THEN s ELSE SubSeq(s, Len(s) - n + 1, Len(s))

\* C5: eviction is FIFO by insertion order and a hit refreshes nothing: the
\* ledger is always the last capacity keys inserted, in insertion order; a hit
\* leaves contents and order unchanged; an insert into a full ledger drops
\* exactly its oldest-inserted key.
C5_FifoNoRefresh ==
    /\ processed = LastN(InsertedKeys, MAX_IDEMPOTENCY_SIZE)
    /\ \A j \in 1..Len(ledgerLog) :
          LET e == ledgerLog[j]
          IN  /\ e.seen => e.after = e.before
              /\ (~e.seen /\ Len(e.before) = MAX_IDEMPOTENCY_SIZE) =>
                    /\ e.after = Append(Tail(e.before), e.key)
                    /\ ~IsProcessed(e.after, Head(e.before))

\* a key is inserted, hit again, evicted by a later overflow although it was
\* hit, and then misses
C5_Witness ==
    \E i, j, m, n \in 1..Len(ledgerLog) :
        /\ i < j /\ j < m /\ m < n
        /\ ledgerLog[i].key = ledgerLog[j].key
        /\ ledgerLog[n].key = ledgerLog[i].key
        /\ ~ledgerLog[i].seen
        /\ ledgerLog[j].seen
        /\ ~ledgerLog[m].seen
        /\ Len(ledgerLog[m].before) = MAX_IDEMPOTENCY_SIZE
        /\ Head(ledgerLog[m].before) = ledgerLog[i].key
        /\ ~ledgerLog[n].seen

(***************************************************************************)
(* Claims about the request authenticator (SpecVerify)                     *)
(***************************************************************************)
\* the integer a timestamp header denotes; <<"huge">> is beyond every window
HeaderInt(t) == IF t[1] = "int" THEN t[2] ELSE 2000000000

VerifyMaxAge ==
    IF verifyIn.max_age_seconds = None THEN SLACK_REQUEST_MAX_AGE_SECONDS
    ELSE verifyIn.max_age_seconds[2]

VerifyShouldPass ==
    /\ verifyIn.secret # ""
    /\ verifyIn.signature \notin {None, <<"str", "">>}
    /\ verifyIn.timestamp \notin {None, <<"str", "">>}
    /\ verifyIn.timestamp[1] \in {"int", "huge"}
    /\ Abs(verifyIn.now - HeaderInt(verifyIn.timestamp)) <= VerifyMaxAge
    /\ verifyIn.signature =
          <<"sig", verifyIn.secret, verifyIn.timestamp, verifyIn.body>>

\* C10: verify returns true iff secret, signature and timestamp are present,
\* the timestamp parses as an integer within maxAgeSeconds of now, and the
\* signature is "v0=" + HMAC(secret, "v0:" + timestamp + ":" + body); a call
\* that passes fails with any other body.
C10_VerifyIff ==
    verifyOut \notin {"pending", "idle"} =>
        /\ (verifyOut = "True") <=> VerifyShouldPass
        /\ verifyOut = "True" =>
              \A b \in BodyValues \ {verifyIn.body} :
                  VerifySlackRequest(b, verifyIn.signature, verifyIn.timestamp,
                      verifyIn.max_age_seconds, verifyIn.secret, verifyIn.now)
                  # "True"

\* a correctly signed request at the edge of the window passes
C10_Witness ==
    /\ verifyOut = "True"
    /\ verifyIn.timestamp = <<"int", 1000, "padded">>
    /\ verifyIn.now = 1300

(***************************************************************************)
(* Claims about the event router (Spec, SpecConcurrent)                    *)
(***************************************************************************)
\* a request was handled
Delivered == last.req # Idle
\* what json.loads made of the body of the request handled last
LastData == Bodies[last.req.raw]
LastIsUrlVerification ==
    LastData.json = "object" /\ LastData.type = "url_verification"

\* the request handled last carries Slack's signature for its body and a
\* timestamp within the window
CorrectlySigned ==
    /\ config.SLACK_SIGNING_SECRET # ""
    /\ last.req.timestamp # None
    /\ last.req.timestamp[1] = "int"
    /\ Abs(1000 - last.req.timestamp[2]) <= SLACK_REQUEST_MAX_AGE_SECONDS
    /\ last.req.signature
       = <<"sig", config.SLACK_SIGNING_SECRET, last.req.timestamp, last.req.raw>>

\* what verify_slack_request returns for the request handled last
LastVerdict ==
    VerifySlackRequest(last.req.raw, last.req.signature, last.req.timestamp, None,
                       config.SLACK_SIGNING_SECRET, 1000)

\* the request handled last changed no state and called no remote service
NoEffect ==
    /\ last.result.ledger = last.ledger_before
    /\ last.result.cache = last.cache_before
    /\ last.result.calls = <<>>
    /\ last.result.check = NoCheck

MessageModes == {"all", "prefix", "mention"}
\* the ledger keys of plain message events, never evicted so far
PlainKeys == {k \in DOMAIN stats : Len(k) = 2 /\ k \notin evicted}

\* C1 as stated: over the deliveries of a plain message event delivered two or
\* more times, the translation capability and the reply-post are each invoked
\* at most once.
C1_InvokedAtMostOnce ==
    config.TRANSLATE_TRIGGER \in MessageModes =>
        \A k \in PlainKeys :
            stats[k].checks >= 2 => stats[k].provider <= 1 /\ stats[k].posts <= 1

\* C1 amended: over the deliveries of a plain message event delivered two or
\* more times, at most one delivery runs the translation (one provider call per
\* non-empty part, headline and body, so at most two) and the reply-post is
\* invoked at most once.
C1_TranslatedByOneDelivery ==
    config.TRANSLATE_TRIGGER \in MessageModes =>
        \A k \in PlainKeys :
            stats[k].checks >= 2 =>
                /\ stats[k].translated <= 1
                /\ stats[k].provider <= 2
                /\ stats[k].posts <= 1

\* a message was delivered twice, translated and replied to once
C1_Witness ==
    /\ config.TRANSLATE_TRIGGER \in MessageModes
    /\ \E k \in PlainKeys :
          /\ stats[k].checks >= 2
          /\ stats[k].translated = 1
          /\ stats[k].posts = 1

\* C2: of the flows that check-and-mark the same ledger key concurrently, at
\* most one observes "not yet seen" and goes on to translate and post.
C2_OneFlowPasses ==
    \A k \in DOMAIN stats :
        k \notin evicted =>
            /\ stats[k].misses <= 1
            /\ stats[k].translated <= 1
            /\ stats[k].posts <= 1

\* two flows held the same message at once; both were handled, one passed
C2_Witness ==
    \E k \in DOMAIN stats :
        /\ stats[k].overlapped
        /\ stats[k].checks >= 2
        /\ stats[k].misses = 1
        /\ stats[k].posts = 1

\* C6 as stated, for the payloads other than url_verification: a request whose
\* body parses as JSON and whose signature verifies is answered 200.
C6_VerifiedIs200 ==
    (Delivered /\ LastData.json # "invalid" /\ ~LastIsUrlVerification
     /\ CorrectlySigned)
    => last.result.status = 200

\* C7: a url_verification payload with a challenge is answered 200 with the
\* challenge echoed, whatever the signature headers and the signing secret,
\* and touches neither the ledger nor a remote service.
C7_ChallengeEchoed ==
    (Delivered /\ LastIsUrlVerification /\ LastData.challenge # Null) =>
        /\ last.result.status = 200
        /\ last.result.body = <<"json", "challenge", LastData.challenge>>
        /\ NoEffect

\* a challenge was echoed to a request without signature headers while no
\* signing secret was configured
C7_Witness ==
    /\ Delivered /\ LastIsUrlVerification /\ LastData.challenge # Null
    /\ last.req.signature = None
    /\ config.SLACK_SIGNING_SECRET = ""
    /\ last.result.status = 200

\* C8 as stated: for a payload whose type is not url_verification, a request
\* that is not correctly signed is answered 403 and has no effect.
C8_BadSignatureIs403 ==
    (Delivered /\ LastData.json = "object" /\ ~LastIsUrlVerification
     /\ ~CorrectlySigned)
    => last.result.status = 403 /\ NoEffect

\* C9 as stated: a request other than url_verification whose signature does
\* not verify is answered 403 whether or not its body is valid JSON.
C9_VerifiedBeforeParsed ==
    (Delivered /\ ~LastIsUrlVerification /\ LastVerdict = "False")
    => last.result.status = 403

(***************************************************************************)
(* Claims about exclusion and failed translations (Spec)                   *)
(***************************************************************************)
\* the remote calls of a kind the request handled last made
LastCalls(kind) ==
    {i \in 1..Len(last.result.calls) : last.result.calls[i][1] = kind}

\* the lowercase text contains one of the phrases
ContainsPhrase(text, phrases) ==
    \E i \in 1..Len(phrases) : Find(Lower(text), Lower(phrases[i])) # 0

\* C11 as stated: a message whose lowercase text contains a configured
\* exclude phrase is never translated and never replied to.
C11_ExcludedNeverTranslated ==
    (/\ Delivered
     /\ LastData.json = "object"
     /\ LastData.event.text \notin {None, NonStr}
     /\ ContainsPhrase(LastData.event.text, config.EXCLUDE_PHRASES_LIST))
    => LastCalls("translate") = {} /\ LastCalls("post") = {}

\* C12 as stated: when translation fails or is rejected for every non-empty
\* part of the text, no reply is posted for the event.
C12_NoPostWhenAllPartsFail ==
    (/\ Delivered
     /\ LastCalls("translate") # {}
     /\ \A i \in LastCalls("translate") : ~last.result.calls[i][3])
    => LastCalls("post") = {}

(***************************************************************************)
(* Claims about reactions (SpecReaction)                                   *)
(***************************************************************************)
LastEvent == LastData.event
\* the request handled last carried a reaction_added event
LastIsReaction ==
    /\ Delivered
    /\ LastData.json = "object" /\ LastData.type = "event_callback"
    /\ LastEvent.shape = "object" /\ LastEvent.type = "reaction_added"
    /\ LastEvent.reaction # NonStr

\* a reaction name, lowercased, hyphens to underscores, without surrounding
\* whitespace
NormalizedName(name) ==
    IF name = None THEN <<>> ELSE ReplaceAll(Lower(Strip(name)), <<"-">>, <<"_">>)

\* the reaction of the event handled last is the configured trigger emoji
ReactionMatches ==
    NormalizedName(LastEvent.reaction) = NormalizedName(config.REACTION_TRIGGER_EMOJI)

ReactionKey == <<LastEvent.item.channel, LastEvent.item.ts>>

\* C13: a reaction_added event is a no-op (200, no resolve, no translate, no
\* post, ledger as before) whenever the trigger mode is not reaction, or the
\* normalized reaction name differs from the normalized trigger emoji, or the
\* item is not a message, or the channel is outside a non-empty allow-list, or
\* the (channel, message timestamp) key is already in the ledger.
C13_ReactionNoOp ==
    (/\ LastIsReaction
     /\ \/ config.TRANSLATE_TRIGGER # "reaction"
        \/ ~ReactionMatches
        \/ LastEvent.item.type # "message"
        \/ /\ config.CHANNEL_IDS_LIST # {}
           /\ LastEvent.item.channel \notin config.CHANNEL_IDS_LIST
        \/ ReactionKey \in Range(last.ledger_before))
    => /\ last.result.status = 200
       /\ last.result.calls = <<>>
       /\ last.result.ledger = last.ledger_before

\* a matching reaction on a message whose key the ledger already held was
\* acknowledged without a remote call
C13_Witness ==
    /\ LastIsReaction
    /\ config.TRANSLATE_TRIGGER = "reaction"
    /\ ReactionMatches
    /\ LastEvent.item.type = "message"
    /\ ReactionKey \in Range(last.ledger_before)
    /\ last.result.check = <<"check", ReactionKey, TRUE>>
    /\ last.result.status = 200
    /\ last.result.calls = <<>>

\* the reaction handled last passed every filter and missed the ledger
ReactionResolved ==
    /\ LastIsReaction
    /\ config.TRANSLATE_TRIGGER = "reaction"
    /\ ReactionMatches
    /\ LastEvent.item.type = "message"
    /\ ~(config.CHANNEL_IDS_LIST # {}
         /\ LastEvent.item.channel \notin config.CHANNEL_IDS_LIST)
    /\ ReactionKey \notin Range(last.ledger_before)

\* the exact-timestamp history query answered, but not with the message
ExactMissed ==
    /\ last.env.fetch.exact.status # "raise"
    /\ ~(last.env.fetch.exact.status = "ok" /\ last.env.fetch.exact.messages # <<>>)

\* the entry for the target on the page a conversations.replies call returned
\* is the j-th
IsFoundEntry(c, j) ==
    LET page == RepliesPage(last.env.fetch, c[3], c[4])
    IN  /\ c[5] = "ok"
        /\ j \in 1..Len(page.messages)
        /\ TsMatches(page.messages[j].ts, LastEvent.item.ts)
        /\ \A k \in 1..(j - 1) : ~TsMatches(page.messages[k].ts, LastEvent.item.ts)

\* the thread root of that entry: its thread timestamp, else the scan's anchor
ThreadRoot(c, j) ==
    LET m == RepliesPage(last.env.fetch, c[3], c[4]).messages[j]
    IN  IF m.thread_ts \notin {Null, ""} THEN m.thread_ts ELSE c[3]

\* C14: when the exact-timestamp query does not return the reacted message
\* and a thread-replies scan finds it, the translation is posted, once, to
\* the found entry's thread-root timestamp (the anchor of the scan if the
\* entry has none), not to the reply's own timestamp.
C14_PostedToThreadRoot ==
    (ReactionResolved /\ ExactMissed) =>
        /\ Cardinality(LastCalls("post")) <= 1
        /\ \A p \in LastCalls("post") :
              \E i \in LastCalls("conversations.replies") :
                 /\ i < p
                 /\ \A k \in LastCalls("conversations.replies") : k <= i
                 /\ \E j \in 1..Len(RepliesPage(last.env.fetch,
                                    last.result.calls[i][3],
                                    last.result.calls[i][4]).messages) :
                       /\ IsFoundEntry(last.result.calls[i], j)
                       /\ last.result.calls[p][3] = ThreadRoot(last.result.calls[i], j)
        /\ \A i \in LastCalls("conversations.replies") :
              (\E j \in 1..2 :
                  /\ IsFoundEntry(last.result.calls[i], j)
                  /\ RepliesPage(last.env.fetch, last.result.calls[i][3],
                                 last.result.calls[i][4]).messages[j].text
                     \notin {None, <<>>})
              => Cardinality(LastCalls("post")) = 1

\* a reaction on the reply 111.001, which history does not return and the
\* thread scan lists under the root 111.000, was answered in thread 111.000
C14_Witness ==
    /\ ReactionResolved /\ ExactMissed
    /\ LastEvent.item.ts = "111.001"
    /\ \E p \in LastCalls("post") : last.result.calls[p][3] = "111.000"

\* the reaction handled last passed every filter ahead of the ledger
ReactionPassesFilters ==
    /\ LastIsReaction
    /\ config.TRANSLATE_TRIGGER = "reaction"
    /\ ReactionMatches
    /\ LastEvent.item.type = "message"
    /\ ~(config.CHANNEL_IDS_LIST # {}
         /\ LastEvent.item.channel \notin config.CHANNEL_IDS_LIST)

\* positions of the resolution calls of the request handled last
LastResolveCalls ==
    LastCalls("conversations.history") \cup LastCalls("conversations.replies")

\* the resolution of the request handled last ended on a rate-limit signal
\* and nothing was translated
RateLimitedAbort ==
    /\ ReactionPassesFilters
    /\ LastResolveCalls # {}
    /\ \E i \in LastResolveCalls :
          /\ last.result.calls[i][5] = "429"
          /\ \A k \in LastResolveCalls : k <= i
    /\ LastCalls("translate") = {}

\* C16: the delivery of a reaction event that follows a delivery of the same
\* event (same channel and message timestamp) whose resolution was aborted
\* by a rate limit attempts the resolution again.
C16_RetryAfterRateLimit ==
    [][(/\ RateLimitedAbort
        /\ delivered' = delivered + 1
        /\ ReactionPassesFilters'
        /\ ReactionKey' = ReactionKey)
       => LastResolveCalls' # {}]_vars

----------------------------------------------------------------------------
(* Claims about edited messages (SpecEdit) *)

\* the ledger keys of edits: (channel, message timestamp, "edit", marker)
EditKeys == {k \in DOMAIN stats : Len(k) = 4}

\* the request handled last was an edit whose key was not in the ledger
LastIsFreshEdit ==
    /\ last.result.check # NoCheck
    /\ last.result.check[2] \in EditKeys
    /\ ~last.result.check[3]

\* C17 as stated: the deliveries of one edit (same message timestamp, same
\* edit marker) post at most one reply in total.
C17_OneReplyPerEdit == \A k \in EditKeys : stats[k].posts <= 1

\* C17, amended: while the key of an edit has not been evicted from the
\* ledger, the deliveries of that edit post at most one reply in total; a
\* delivery of an edit whose key is not in the ledger posts one reply (bot
\* token set, text to translate), so edits of one message with distinct
\* markers each post one.
C17_OneReplyPerEditInLedger ==
    /\ \A k \in EditKeys \ evicted : stats[k].posts <= 1 /\ stats[k].misses <= 1
    /\ (/\ LastIsFreshEdit
        /\ config.SLACK_BOT_TOKEN # ""
        /\ LastEvent.message.text \notin {None, NonStr, <<>>})
       => Cardinality(LastCalls("post")) = 1

\* two edits of one message with distinct markers posted one reply each, and
\* one of them was delivered again without a second reply
C17_Witness ==
    \E k1 \in EditKeys \ evicted, k2 \in EditKeys \ evicted :
        /\ k1 # k2 /\ k1[1] = k2[1] /\ k1[2] = k2[2]
        /\ stats[k1].posts = 1 /\ stats[k2].posts = 1
        /\ stats[k1].checks >= 2

\* the request handled last carried a message_changed event of a user
\* message in an allowed channel, and the configuration is reaction mode
LastIsEdit ==
    /\ Delivered
    /\ LastData.json = "object" /\ LastData.type = "event_callback"
    /\ LastEvent.shape = "object" /\ LastEvent.type = "message"
    /\ LastEvent.subtype = "message_changed"
    /\ config.TRANSLATE_TRIGGER = "reaction"
    /\ LastEvent.channel \notin {Null, ""}
    /\ ~(config.CHANNEL_IDS_LIST # {} /\ LastEvent.channel \notin config.CHANNEL_IDS_LIST)
    /\ LastEvent.message.ts \notin {Null, ""}
    /\ LastEvent.message.bot_id \in {Null, ""}
    /\ LastEvent.previous_message.bot_id \in {Null, ""}

\* C18: in reaction mode, a message_changed event whose edited message has
\* no reactions list makes exactly one live reactions lookup.
C18_LiveReactionsLookup ==
    (LastIsEdit /\ LastEvent.message.reactions = None)
        => Cardinality(LastCalls("reactions.get")) = 1

\* the entries of a reactions list that name the trigger emoji
TriggerEntries(reactions) ==
    {i \in 1..Len(reactions[2]) :
        NormalizedName(reactions[2][i].name)
            = NormalizedName(config.REACTION_TRIGGER_EMOJI)}

\* the request handled last was answered 200 and nothing else happened
Skipped == last.result.status = 200 /\ NoEffect

IsPartOf(part, text) ==
    \E i \in 0..(Len(text) - Len(part)) : SubSeq(text, i + 1, i + Len(part)) = part

\* the thread anchor of an edit: the edited message's thread timestamp, else
\* the previous message's, else the message's own timestamp
EditAnchor ==
    IF LastEvent.message.thread_ts \notin {Null, ""} THEN LastEvent.message.thread_ts
    ELSE IF LastEvent.previous_message.thread_ts \notin {Null, ""}
    THEN LastEvent.previous_message.thread_ts
    ELSE LastEvent.message.ts

\* the edit handled last carries the trigger reaction, has text, and is not
\* a repeated delivery
LastIsTriggeredEdit ==
    /\ LastIsEdit
    /\ LastEvent.message.reactions # None
    /\ \E i \in TriggerEntries(LastEvent.message.reactions) :
          LastEvent.message.reactions[2][i].count = <<"int", 1>>
    /\ LastEvent.message.text \notin {None, NonStr, <<>>}
    /\ (last.result.check = NoCheck \/ ~last.result.check[3])
    /\ config.SLACK_BOT_TOKEN # ""

\* C20: in reaction mode, an edit of a message carrying the trigger reaction
\* translates the current text of the edited message, not the previous
\* text, and posts exactly one reply, anchored at the edited message's
\* thread timestamp, else the previous message's, else the message's own
\* timestamp.
C20_EditTranslatesCurrentText ==
    LastIsTriggeredEdit =>
        /\ LastCalls("translate") # {}
        /\ \A i \in LastCalls("translate") :
              /\ IsPartOf(last.result.calls[i][2], LastEvent.message.text)
              /\ ~IsPartOf(last.result.calls[i][2], LastEvent.previous_message.text)
        /\ Cardinality(LastCalls("post")) = 1
        /\ \A p \in LastCalls("post") :
              /\ last.result.calls[p][2] = LastEvent.channel
              /\ last.result.calls[p][3] = EditAnchor

\* an edit with a thread timestamp on the previous message only was answered
\* in that thread
C20_Witness ==
    /\ LastIsTriggeredEdit
    /\ LastEvent.message.thread_ts = Null
    /\ LastEvent.previous_message.thread_ts = "110.000"
    /\ \E p \in LastCalls("post") : last.result.calls[p][3] = "110.000"

----------------------------------------------------------------------------
(* Claims about message resolution (SpecResolve) *)

\* the remote calls one resolution made, in order
ResolveCalls == resolveOut.result.calls

\* C15: a remote call of a resolution that is answered with HTTP 429 is the
\* resolution's last call, and the resolution returns NotFound.
C15_RateLimitAborts ==
    resolveOut.done =>
        \A i \in 1..Len(ResolveCalls) :
            ResolveCalls[i][5] = "429" =>
                /\ i = Len(ResolveCalls)
                /\ resolveOut.result.text = None
                /\ resolveOut.result.reply_thread_ts = Null

----------------------------------------------------------------------------
(* Claims about the trigger policy (SpecTrigger) *)

\* the request handled last carried a new message of a user: no subtype, no
\* bot id
LastIsNewMessage ==
    /\ Delivered
    /\ LastData.json = "object" /\ LastData.type = "event_callback"
    /\ LastEvent.shape = "object" /\ LastEvent.type = "message"
    /\ LastEvent.subtype = Null /\ LastEvent.bot_id = Null
    /\ LastEvent.text \notin {None, NonStr}

\* the message handled last was not seen before
LastIsFresh == last.result.check # NoCheck /\ ~last.result.check[3]

\* the text of the message handled last, as the handler reads it (trimmed)
LastText == Strip(LastEvent.text)

\* the text starts with the configured prefix, character for character
HasPrefix ==
    /\ config.TRANSLATE_PREFIX # <<>>
    /\ Len(config.TRANSLATE_PREFIX) <= Len(LastText)
    /\ \A i \in 1..Len(config.TRANSLATE_PREFIX) :
          LastText[i] = config.TRANSLATE_PREFIX[i]

\* what follows the prefix, trimmed
PrefixRemainder ==
    Strip(SubSeq(LastText, Len(config.TRANSLATE_PREFIX) + 1, Len(LastText)))

IdentityUnresolved ==
    /\ last.cache_before = None
    /\ (config.SLACK_BOT_TOKEN = "" \/ last.env.auth = None)

\* C22: in mention mode, a message handled while the bot's identity cannot
\* be resolved is neither translated nor replied to, whatever its text.
C22_MentionFailsClosed ==
    (LastIsNewMessage /\ config.TRANSLATE_TRIGGER = "mention" /\ IdentityUnresolved)
        => /\ LastCalls("translate") = {}
           /\ LastCalls("post") = {}
           /\ last.result.status = 200
           /\ last.result.cache = None

\* a message mentioning <@U1> was handled for the first time in mention mode
\* while auth.test failed, and nothing was translated
C22_Witness ==
    /\ LastIsNewMessage /\ config.TRANSLATE_TRIGGER = "mention" /\ IdentityUnresolved
    /\ LastEvent.text = MENTIONING
    /\ LastIsFresh
    /\ \E i \in LastCalls("auth.test") : last.result.calls[i][2] = None
    /\ LastCalls("translate") = {}

----------------------------------------------------------------------------
(* Claims about the event router (Spec) *)

\* the request handled last was verified and carried a message event
LastIsMessageEvent ==
    /\ Delivered
    /\ LastVerdict = "True"
    /\ LastData.json = "object" /\ LastData.type = "event_callback"
    /\ LastEvent.shape = "object" /\ LastEvent.type = "message"

\* the message event handled last went to the edit handler
LastIsEditInReactionMode ==
    config.TRANSLATE_TRIGGER = "reaction" /\ LastEvent.subtype = "message_changed"

\* C23: in reaction mode a new message event causes no translate and no
\* post; in every mode a message event with a bot id or a subtype causes no
\* translate, no post and no ledger insertion on the new-message path (in
\* reaction mode, events of subtype message_changed go to the edit handler).
C23_OnlyPlainUserMessages ==
    LastIsMessageEvent =>
        /\ (config.TRANSLATE_TRIGGER = "reaction" /\ ~LastIsEditInReactionMode)
              => Skipped
        /\ ((LastEvent.bot_id # Null \/ LastEvent.subtype # Null)
            /\ ~LastIsEditInReactionMode)
              => Skipped

\* a message of a bot was handled in mode "all" and nothing happened
C23_Witness ==
    /\ LastIsMessageEvent
    /\ config.TRANSLATE_TRIGGER = "all"
    /\ LastEvent.bot_id = "B1" /\ LastEvent.subtype = Null
    /\ LastEvent.text = HI
    /\ Skipped

\* C24: a webhook call attempts at most one reply-post; the post is the last
\* thing the call does, whether it succeeds or fails, and the call is
\* answered 200.
C24_OnePostAttempt ==
    Delivered =>
        /\ Cardinality(LastCalls("post")) <= 1
        /\ \A p \in LastCalls("post") :
              /\ p = Len(last.result.calls)
              /\ last.result.status = 200

\* a request whose reply-post failed was answered 200 after one attempt
C24_Witness ==
    /\ Delivered
    /\ \E p \in LastCalls("post") : last.result.calls[p][5] = "fail"
    /\ Cardinality(LastCalls("post")) = 1
    /\ last.result.status = 200

----------------------------------------------------------------------------
(* Claims about the content shaper (SpecShaper) *)

\* C25: restoring the shortcodes into the protected text gives back the
\* text, whatever shortcodes it holds.
C25_RestoreProtectIsIdentity ==
    shapeOut.op = "emoji" => shapeOut.result = shapeIn.text

\* where phrase occurs in the text given to the shaper, whatever the case
Occurrences(phrase) ==
    {i \in 1..(Len(shapeIn.text) - Len(phrase) + 1) :
        \A k \in 1..Len(phrase) :
            LowerChar(shapeIn.text[i + k - 1]) = LowerChar(phrase[k])}

\* the configured phrases that occur in the text, by their index in the list
PresentPhrases ==
    {j \in 1..Len(shapeIn.phrases) : Occurrences(shapeIn.phrases[j]) # {}}

\* the text after the occurrence of phrase at index i, trimmed
After(i, phrase) ==
    Strip(SubSeq(shapeIn.text, i + Len(phrase), Len(shapeIn.text)))

\* the trimmed text after the first and after the last occurrence of the
\* j-th phrase
AfterFirst(j) ==
    After(CHOOSE i \in Occurrences(shapeIn.phrases[j]) :
              \A k \in Occurrences(shapeIn.phrases[j]) : i <= k,
          shapeIn.phrases[j])
AfterLast(j) ==
    After(CHOOSE i \in Occurrences(shapeIn.phrases[j]) :
              \A k \in Occurrences(shapeIn.phrases[j]) : i >= k,
          shapeIn.phrases[j])

\* the first phrase of the list that occurs in the text
MatchedPhrase == CHOOSE j \in PresentPhrases : \A k \in PresentPhrases : j <= k

\* C26: extraction returns the text unchanged when no configured phrase
\* occurs in it and when nothing but whitespace follows the matched phrase;
\* it never returns an empty string for a non-empty text.
C26_BarePhraseKeepsText ==
    shapeOut.op = "extract" =>
        /\ PresentPhrases = {} => shapeOut.result = shapeIn.text
        /\ (PresentPhrases # {} /\ AfterFirst(MatchedPhrase) = <<>>)
              => shapeOut.result = shapeIn.text
        /\ shapeIn.text # <<>> => shapeOut.result # <<>>

\* C27 as stated: when a configured phrase occurs in T, extract(T) is the
\* trimmed text after the last occurrence of the first phrase of the
\* (longest-first) list that occurs, text following it.
C27_AfterLastOccurrence ==
    (/\ shapeOut.op = "extract"
     /\ PresentPhrases # {}
     /\ AfterLast(MatchedPhrase) # <<>>)
    => shapeOut.result = AfterLast(MatchedPhrase)

\* C27, amended: when a configured phrase occurs in T, and text follows the
\* first occurrence of the first phrase P of the list that occurs, extract(T)
\* is the trimmed text after that first occurrence of P; the list is ordered
\* longest-first, so a longer phrase is matched before a shorter one.
C27_AfterFirstOccurrence ==
    (/\ shapeOut.op = "extract"
     /\ PresentPhrases # {}
     /\ AfterFirst(MatchedPhrase) # <<>>)
    => /\ shapeOut.result = AfterFirst(MatchedPhrase)
       /\ \A j \in 1..Len(shapeIn.phrases), k \in 1..Len(shapeIn.phrases) :
             j < k => Len(shapeIn.phrases[j]) >= Len(shapeIn.phrases[k])

\* "T:apt:a": the short phrase occurs first, the long phrase later; the text
\* after the long phrase was returned
C27_Witness ==
    /\ shapeOut.op = "extract"
    /\ shapeIn.phrases = EXTRACT_PHRASES_LIST
    /\ shapeIn.text = <<"T", ":", "a", "p", "t", ":", "a">>
    /\ shapeOut.result = <<"a">>

\* every character of s from index i to index j is whitespace
Blank(s, i, j) == \A k \in i..j : s[k] \in {" ", "\n"}

\* s has no whitespace at either end
Trimmed(s) == s = <<>> \/ (s[1] \notin {" ", "\n"} /\ s[Len(s)] \notin {" ", "\n"})

\* the text before and the text after the first newline of s
BeforeNewline(s) ==
    SubSeq(s, 1, (CHOOSE i \in 1..Len(s) :
                     s[i] = "\n" /\ \A k \in 1..(i - 1) : s[k] # "\n") - 1)
AfterNewline(s) ==
    SubSeq(s, (CHOOSE i \in 1..Len(s) :
                  s[i] = "\n" /\ \A k \in 1..(i - 1) : s[k] # "\n") + 1, Len(s))

\* C28 as stated: the headline is the trimmed text before the first newline
\* of T and the body the trimmed remainder; whenever the body is not empty,
\* headline + newline + body equals T; the body is empty when T has no
\* newline.
C28_SplitRejoins ==
    shapeOut.op = "split" =>
        /\ (\E i \in 1..Len(shapeIn.text) : shapeIn.text[i] = "\n") =>
              /\ shapeOut.result.headline = Strip(BeforeNewline(shapeIn.text))
              /\ shapeOut.result.body = Strip(AfterNewline(shapeIn.text))
        /\ shapeOut.result.body # <<>> =>
              shapeOut.result.headline \o <<"\n">> \o shapeOut.result.body
                  = shapeIn.text
        /\ (\A i \in 1..Len(shapeIn.text) : shapeIn.text[i] # "\n")
              => shapeOut.result.body = <<>>

\* T is the headline and the body, separated by a newline, with whitespace
\* only around them: T[a..b] is the headline, T[n] the newline, T[c..d] the body
SplitsAt(a, b, n, c, d) ==
    /\ SubSeq(shapeIn.text, a, b) = shapeOut.result.headline
    /\ shapeIn.text[n] = "\n"
    /\ SubSeq(shapeIn.text, c, d) = shapeOut.result.body
    /\ Blank(shapeIn.text, 1, a - 1) /\ Blank(shapeIn.text, b + 1, n - 1)
    /\ Blank(shapeIn.text, n + 1, c - 1) /\ Blank(shapeIn.text, d + 1, Len(shapeIn.text))

\* C28, amended: split(T) trims T and splits it on its first remaining
\* newline.  Headline and body are trimmed and the headline holds no newline;
\* whenever the body is not empty, T is headline + newline + body up to
\* whitespace around the two (exactly so when T has no whitespace at its
\* ends or next to that newline); the body is empty when T, trimmed, has no
\* newline, and the headline is then T, trimmed.
C28_SplitOnFirstNewline ==
    shapeOut.op = "split" =>
        /\ Trimmed(shapeOut.result.headline) /\ Trimmed(shapeOut.result.body)
        /\ \A i \in 1..Len(shapeOut.result.headline) :
              shapeOut.result.headline[i] # "\n"
        /\ shapeOut.result.body # <<>> =>
              \E a \in 1..Len(shapeIn.text), n \in 1..Len(shapeIn.text),
                 d \in 1..Len(shapeIn.text) :
                    /\ a + Len(shapeOut.result.headline) - 1 < n
                    /\ n < d - Len(shapeOut.result.body) + 1
                    /\ SplitsAt(a, a + Len(shapeOut.result.headline) - 1, n,
                                d - Len(shapeOut.result.body) + 1, d)
        /\ (\A i \in 1..Len(Strip(shapeIn.text)) : Strip(shapeIn.text)[i] # "\n")
              <=> shapeOut.result.body = <<>>
        /\ shapeOut.result.body = <<>> => shapeOut.result.headline = Strip(shapeIn.text)

\* "a\n a\na" gave the headline "a" and the two-line body "a\na"
C28_Witness ==
    /\ shapeOut.op = "split"
    /\ shapeIn.text = <<"a", "\n", " ", "a", "\n", "a">>
    /\ shapeOut.result = [headline |-> <<"a">>, body |-> <<"a", "\n", "a">>]

----------------------------------------------------------------------------
(* Claims about the resolution order (SpecResolve) *)

\* the resolution ran with a bot token, so its exact-timestamp query was made
ResolutionRan == resolveOut.done /\ resolveIn.cfg.SLACK_BOT_TOKEN # ""

\* the exact-timestamp history query returned a message
ExactReturned ==
    /\ ApiCall(resolveIn.api.exact).status = "ok"
    /\ ApiCall(resolveIn.api.exact).messages # <<>>

\* C29: when the exact-timestamp history query returns a message, the result
\* is that message's (trimmed) text with the target timestamp as reply
\* anchor, and the query is the only remote call of the resolution: no
\* thread-replies and no parent-discovery call is made.
C29_ExactHitShortCircuits ==
    (ResolutionRan /\ ExactReturned) =>
        /\ resolveOut.result.text =
              TextOf(ApiCall(resolveIn.api.exact).messages[1].text)
        /\ resolveOut.result.reply_thread_ts = "111.001"
        /\ ResolveCalls =
              << <<"conversations.history", resolveIn.cfg.SLACK_BOT_TOKEN,
                   "111.001", 0, "ok", 1>> >>

\* the exact query returned the target although a thread scan anchored at it
\* would have found it too: the result is the history entry's text
C29_Witness ==
    /\ ResolutionRan
    /\ resolveIn.api.exact = OkPage(<<STANDALONE>>, FALSE)
    /\ resolveIn.api.replies = Thread("111.001", <<OkPage(<<ROOT, REPLY>>, FALSE)>>)
    /\ resolveOut.result.text = HI
    /\ Len(ResolveCalls) = 1

\* the exact-timestamp query answered without the message
ExactQueryMissed ==
    /\ ApiCall(resolveIn.api.exact).status # "raise"
    /\ ~ExactReturned

\* the pages conversations.replies returns for the target as anchor
DirectPages ==
    IF "111.001" \in DOMAIN resolveIn.api.replies
    THEN resolveIn.api.replies["111.001"] ELSE <<>>

\* the target first appears on page n of the scan anchored at itself, and
\* every page before it answers with a cursor to the next
FirstOnPage(n) ==
    /\ n \in 1..Len(DirectPages)
    /\ DirectPages[n].status = "ok"
    /\ FirstMatch(DirectPages[n].messages, "111.001") # 0
    /\ \A k \in 1..(n - 1) :
          /\ DirectPages[k].status = "ok"
          /\ DirectPages[k].next_cursor
          /\ FirstMatch(DirectPages[k].messages, "111.001") = 0

\* the n-th call of the scan anchored at the target
DirectCall(n) ==
    <<"conversations.replies", RepliesToken(resolveIn.cfg), "111.001", n, "ok", 1>>

\* no thread-replies scan of the resolution read more than 4 pages
NoFifthPage ==
    resolveOut.done =>
        \A i \in 1..Len(ResolveCalls) :
            ResolveCalls[i][1] = "conversations.replies" =>
                ResolveCalls[i][4] <= MAX_PAGES

\* C30: the scan anchored at the target follows cursors for up to 4 pages: a
\* target that first appears on page 2, 3 or 4 of that scan is found by it
\* (the scan reads that page, and the result is the text of the entry), and
\* no scan requests a fifth page.
C30_DirectScanFollowsCursors ==
    /\ \A n \in 2..MAX_PAGES :
          (ResolutionRan /\ ExactQueryMissed /\ FirstOnPage(n)) =>
              /\ \E i \in 1..Len(ResolveCalls) : ResolveCalls[i] = DirectCall(n)
              /\ resolveOut.result.text =
                    TextOf(DirectPages[n].messages[
                               FirstMatch(DirectPages[n].messages, "111.001")].text)
    /\ NoFifthPage

\* the answer to the one page the scan anchored at the target reads
DirectPage == ApiCall(RepliesPage(resolveIn.api, "111.001", 1))

\* the scan anchored at the target ended without a usable text and without
\* ending the resolution: the target is not on its page or has no text, or
\* the page was refused
DirectScanFailed ==
    /\ DirectPage.status \in {"ok", "error"}
    /\ \/ DirectPage.status = "error"
       \/ FirstMatch(DirectPage.messages, "111.001") = 0
       \/ TextOf(DirectPage.messages[FirstMatch(DirectPage.messages, "111.001")].text)
             = <<>>

\* the event supplied a parent timestamp other than the target
HintDiffers == IsSet(resolveIn.thread_ts) /\ resolveIn.thread_ts # "111.001"

\* the first four fields of the i-th call: method, token, anchor, page
CallHead(i) == SubSeq(ResolveCalls[i], 1, 4)

\* C31: the scan anchored at the event's parent hint is performed exactly
\* when a hint was supplied and differs from the target (and the exact query
\* and the scan anchored at the target have not ended the resolution); its
\* first page is read right after the scan anchored at the target, before
\* any parent-discovery history call; without such a hint the call after
\* the scan anchored at the target is the first discovery history call.
C31_HintScanOrder ==
    ResolutionRan =>
        IF ExactQueryMissed /\ DirectScanFailed
        THEN /\ Len(ResolveCalls) >= 3
             /\ CallHead(2) = <<"conversations.replies", RepliesToken(resolveIn.cfg),
                                "111.001", 1>>
             /\ CallHead(3) =
                   IF HintDiffers
                   THEN <<"conversations.replies", RepliesToken(resolveIn.cfg),
                          resolveIn.thread_ts, 1>>
                   ELSE <<"conversations.history", RepliesToken(resolveIn.cfg),
                          "111.001", 1>>
        ELSE Len(ResolveCalls) <= 2

\* with the hint 111.000 the target was found on the second page of the
\* hint's thread, after the exact query and the scan anchored at the target
C31_Witness ==
    /\ ResolutionRan /\ ExactQueryMissed /\ DirectScanFailed
    /\ resolveIn.thread_ts = "111.000"
    /\ Len(ResolveCalls) = 4
    /\ CallHead(3) = <<"conversations.replies", RepliesToken(resolveIn.cfg), "111.000", 1>>
    /\ CallHead(4) = <<"conversations.replies", RepliesToken(resolveIn.cfg), "111.000", 2>>
    /\ resolveOut.result.text = HI
    /\ resolveOut.result.reply_thread_ts = "111.000"

----------------------------------------------------------------------------
(* Claims about parent discovery (SpecResolve) *)

\* the parent-discovery history calls of the resolution
DiscoveryCalls ==
    {i \in 1..Len(ResolveCalls) :
        ResolveCalls[i][1] = "conversations.history" /\ ResolveCalls[i][4] >= 1}

\* the calls that scan the threads of discovered parents
CandidateCalls ==
    {i \in 1..Len(ResolveCalls) :
        /\ ResolveCalls[i][1] = "conversations.replies"
        /\ \E h \in DiscoveryCalls : h < i}

\* those that start the scan of a thread
ScanStarts == {i \in CandidateCalls : ResolveCalls[i][4] = 1}

RECURSIVE SeenUpTo(_)
\* the messages of the first n history pages, as far as they were answered
SeenUpTo(n) ==
    IF n = 0 THEN <<>>
    ELSE SeenUpTo(n - 1) \o
         (IF /\ n <= Len(resolveIn.api.history)
             /\ ApiCall(resolveIn.api.history[n]).status = "ok"
          THEN ApiCall(resolveIn.api.history[n]).messages ELSE <<>>)

\* the messages of the history pages the discovery read
Seen == SeenUpTo(Cardinality(DiscoveryCalls))

\* the timestamps of the seen messages with a nonzero reply count, or of all
\* seen messages when none has replies, in the order history returned them
Preferred ==
    IF SelectSeq(Seen, HasReplies) # <<>>
    THEN TsOf(SelectSeq(Seen, HasReplies))
    ELSE TsOf(SelectSeq(Seen, HasTs))

\* at most the first 30 of them
ExpectedCandidates ==
    SubSeq(Preferred, 1, IF Len(Preferred) < 30 THEN Len(Preferred) ELSE 30)

\* at most 4 history pages are read
DiscoveryBounded ==
    /\ Cardinality(DiscoveryCalls) <= 4
    /\ \A h \in DiscoveryCalls : ResolveCalls[h][4] <= 4

\* the k-th thread scanned is the k-th candidate's, and all candidates are
\* scanned unless a scan ended the resolution
CandidatesInOrder ==
    /\ Cardinality(ScanStarts) <= Len(ExpectedCandidates)
    /\ \A i \in ScanStarts :
          ResolveCalls[i][3] =
              ExpectedCandidates[Cardinality({j \in ScanStarts : j <= i})]
    /\ \A i \in CandidateCalls \ ScanStarts :
          ResolveCalls[i][3] = ResolveCalls[i - 1][3]
    /\ (/\ resolveOut.result.text = None
        /\ ResolveCalls[Len(ResolveCalls)][5] \notin {"429", "raise"})
          => Cardinality(ScanStarts) = Len(ExpectedCandidates)

\* the page that answered the i-th call, a thread-replies call
PageOf(i) ==
    ApiCall(RepliesPage(resolveIn.api, ResolveCalls[i][3], ResolveCalls[i][4]))

\* the entry for the target on that page, 0 if there is none
HitOn(i) ==
    IF ResolveCalls[i][5] = "ok" THEN FirstMatch(PageOf(i).messages, "111.001") ELSE 0

\* the scan of a candidate's thread that comes upon the target ends the
\* resolution with the entry's text
ReturnsOnFirstHit ==
    \A i \in CandidateCalls :
        HitOn(i) # 0 =>
            /\ i = Len(ResolveCalls)
            /\ resolveOut.result.text = TextOf(PageOf(i).messages[HitOn(i)].text)

\* the same for the entries that have a text
ReturnsOnFirstHitWithText ==
    \A i \in CandidateCalls :
        (HitOn(i) # 0 /\ TextOf(PageOf(i).messages[HitOn(i)].text) # <<>>) =>
            /\ i = Len(ResolveCalls)
            /\ resolveOut.result.text = TextOf(PageOf(i).messages[HitOn(i)].text)

\* C32: parent discovery reads at most 4 history pages, takes as candidates
\* the messages with a nonzero reply count (all seen timestamps only when
\* none has replies), keeps at most the first 30 in the order history
\* returned them, scans each candidate's thread in that order, and returns
\* on the first candidate whose thread contains the target.
C32_ParentDiscovery ==
    (resolveOut.done /\ DiscoveryCalls # {}) =>
        DiscoveryBounded /\ CandidatesInOrder /\ ReturnsOnFirstHit

\* what the discovery does keep of C32: the page bound, the candidates and
\* their order, and the return on the first thread that contains the target
\* with a text
ParentDiscoveryWithText ==
    (resolveOut.done /\ DiscoveryCalls # {}) =>
        DiscoveryBounded /\ CandidatesInOrder /\ ReturnsOnFirstHitWithText

\* all 30 candidates of a page of 31 parents were scanned, the 31st was not
DiscoveryCapReached ==
    /\ resolveOut.done
    /\ Cardinality(ScanStarts) = 30
    /\ Len(Preferred) = 31
    /\ \A i \in CandidateCalls : ResolveCalls[i][3] # "111.000"

\* five history pages were on offer, four were read
DiscoveryPageCapReached ==
    /\ resolveOut.done
    /\ Len(resolveIn.api.history) = 5
    /\ Cardinality(DiscoveryCalls) = 4

----------------------------------------------------------------------------
(* Claims about refused calls (SpecResolve) *)

\* what Slack sent back to the POST of the i-th call
Sent(i) ==
    IF ResolveCalls[i][1] = "conversations.replies"
    THEN RepliesPage(resolveIn.api, ResolveCalls[i][3], ResolveCalls[i][4])
    ELSE IF ResolveCalls[i][4] = 0 THEN resolveIn.api.exact
    ELSE IF ResolveCalls[i][4] <= Len(resolveIn.api.history)
    THEN resolveIn.api.history[ResolveCalls[i][4]]
    ELSE ErrorPage

\* an answer that is a non-success status or an explicit not-ok, and no rate
\* limit
IsRefusal(sent) ==
    \/ sent.status \in {"error", "unparsable"}
    \/ /\ sent.status = "invalid_arguments"
       /\ sent.retry.status \in {"error", "unparsable", "invalid_arguments"}

\* the same, with a body that r.json() parses
IsParsedRefusal(sent) == ApiCall(sent).status = "error"

\* the start of the scan of a thread, as the head of a call
ScanStart(anchor_ts) ==
    <<"conversations.replies", RepliesToken(resolveIn.cfg), anchor_ts, 1>>

\* the first parent-discovery history call, as the head of a call
DiscoveryStart ==
    <<"conversations.history", RepliesToken(resolveIn.cfg), "111.001", 1>>

\* how many threads of candidates were entered up to the i-th call
Rank(i) == Cardinality({j \in ScanStarts : j <= i})

\* after the i-th call the resolution goes on with the next strategy or the
\* next candidate, if there is one
NextStrategyFollows(i) ==
    IF i = 1
    THEN Len(ResolveCalls) >= 2 /\ CallHead(2) = ScanStart("111.001")
    ELSE IF i \in DiscoveryCalls
    THEN ExpectedCandidates # <<>> =>
            /\ Len(ResolveCalls) > i
            /\ CallHead(i + 1) = ScanStart(ExpectedCandidates[1])
    ELSE IF i \in CandidateCalls
    THEN Rank(i) < Len(ExpectedCandidates) =>
            /\ Len(ResolveCalls) > i
            /\ CallHead(i + 1) = ScanStart(ExpectedCandidates[Rank(i) + 1])
    ELSE /\ Len(ResolveCalls) > i
         /\ CallHead(i + 1) =
               IF i = 2 /\ HintDiffers THEN ScanStart(resolveIn.thread_ts)
               ELSE DiscoveryStart

\* the first message with replies of a one-page history, else its first
FirstParent(messages) ==
    IF SelectSeq(messages, HasReplies) # <<>>
    THEN SelectSeq(messages, HasReplies)[1].ts
    ELSE SelectSeq(messages, HasTs)[1].ts

\* the only history page
OnlyPage == ApiCall(resolveIn.api.history[1])

\* the first page of the thread of the first discovered parent
ParentPage == ApiCall(RepliesPage(resolveIn.api, FirstParent(OnlyPage.messages), 1))

\* the direct lookup is refused, there is no hint to try, and the thread of
\* the first parent that a one-page history lists contains the target with a
\* text
RejectedButDiscoverable(Refusal(_)) ==
    /\ ResolutionRan /\ ExactQueryMissed
    /\ Refusal(RepliesPage(resolveIn.api, "111.001", 1))
    /\ ~HintDiffers
    /\ resolveIn.api.history # <<>>
    /\ OnlyPage.status = "ok" /\ ~OnlyPage.next_cursor
    /\ SelectSeq(OnlyPage.messages, HasTs) # <<>>
    /\ ParentPage.status = "ok"
    /\ FirstMatch(ParentPage.messages, "111.001") # 0
    /\ TextOf(ParentPage.messages[FirstMatch(ParentPage.messages, "111.001")].text)
          # <<>>

\* the text of the target in that thread
DiscoverableText ==
    TextOf(ParentPage.messages[FirstMatch(ParentPage.messages, "111.001")].text)

\* refusals of the given kind only fail the strategy they occur in
RefusalsFailOneStrategy(Refusal(_)) ==
    resolveOut.done =>
        /\ \A i \in 1..Len(ResolveCalls) : Refusal(Sent(i)) => NextStrategyFollows(i)
        /\ RejectedButDiscoverable(Refusal) => resolveOut.result.text = DiscoverableText

\* C33: a non-success status or an explicit not-ok answer of a remote call
\* (other than a rate limit) only fails the current strategy: the resolution
\* continues with the next strategy or the next candidate, so a target
\* rejected by the direct replies lookup is still found through parent
\* discovery when a discovered parent's thread contains it.
C33_RefusalsFailOneStrategy == RefusalsFailOneStrategy(IsRefusal)

\* what the resolver does keep of C33: the same for the refusals whose body
\* r.json() parses
ParsedRefusalsFailOneStrategy == RefusalsFailOneStrategy(IsParsedRefusal)

\* the direct lookup was refused with invalid_arguments, by the POST and by
\* the GET, and the target was found in the thread of the discovered parent
RefusedThenDiscovered ==
    /\ RejectedButDiscoverable(IsParsedRefusal)
    /\ resolveOut.done
    /\ RepliesPage(resolveIn.api, "111.001", 1).status = "invalid_arguments"
    /\ resolveOut.result.text = TWO_LINES
    /\ resolveOut.result.reply_thread_ts = "111.000"

----------------------------------------------------------------------------
(* Claims about the headline and body orchestration (SpecOrchestrate) *)

\* the headline and the body of the text as it was given
GivenParts == SplitHeadlineBody(shapeIn.text)

\* a text of two parts was orchestrated
TwoPartsOrchestrated ==
    /\ shapeOut.op = "translate"
    /\ GivenParts.headline # <<>> /\ GivenParts.body # <<>>

\* the part as the result shows it: DeepL's translation if it answered one,
\* the given part otherwise
Shown(part, outcome) == IF outcome = "EN" THEN DeepL(part) ELSE part

\* exactly one of the two parts was translated
OnePartFailed ==
    (shapeOut.result.outcomes[1] = "EN") # (shapeOut.result.outcomes[2] = "EN")

\* the headline, then the body, each translated or as given, on two lines
PartsKept ==
    /\ Len(shapeOut.result.calls) = 2
    /\ shapeOut.result.calls[1][3] = (shapeOut.result.outcomes[1] = "EN")
    /\ shapeOut.result.calls[2][3] = (shapeOut.result.outcomes[2] = "EN")
    /\ shapeOut.result.value =
          Shown(GivenParts.headline, shapeOut.result.outcomes[1]) \o <<"\n">>
          \o Shown(GivenParts.body, shapeOut.result.outcomes[2])

\* C34: each non-empty part is translated independently; when translation
\* fails for one part only, the result is the other part translated and the
\* failed part in its untranslated original form, headline then body, joined
\* by a single newline.
C34_FailedPartKept == (TwoPartsOrchestrated /\ OnePartFailed) => PartsKept

\* the text has no shortcode named like a placeholder
NoPlaceholderName == \A i \in 1..Len(shapeIn.text) : shapeIn.text[i] # EMOJI_PLACEHOLDER

\* what the orchestration does keep of C34: the same for the texts without a
\* shortcode named like a placeholder
FailedPartKeptWithoutPlaceholderName ==
    (TwoPartsOrchestrated /\ OnePartFailed /\ NoPlaceholderName) => PartsKept

\* ":a:\na" with the body refused: the headline translated around its
\* shortcode, the body as given
FailedBodyKept ==
    /\ TwoPartsOrchestrated
    /\ shapeIn.text = <<":", "a", ":", "a", "\n", "a">>
    /\ shapeOut.result.outcomes = <<"EN", "FR">>
    /\ shapeOut.result.value = <<"~", ":", "a", ":", "a", "\n", "a">>

----------------------------------------------------------------------------
(* Claims about the memoized identity (SpecTrigger) *)

\* the identity lookups of the request handled in this step
LookupsMade ==
    {i \in 1..Len(last'.result.calls) : last'.result.calls[i][1] = "auth.test"}

\* C35: once an identity lookup has succeeded, no later request triggers
\* another lookup and the cached id never changes; a lookup that fails
\* leaves the cache empty.
C35_IdentityMemoized ==
    [][/\ bot_user_id # None =>
             (bot_user_id' = bot_user_id /\ LookupsMade = {})
       /\ (bot_user_id = None
             /\ \E i \in LookupsMade : last'.result.calls[i][2] = None)
             => bot_user_id' = None
       /\ (bot_user_id = None
             /\ \E i \in LookupsMade : last'.result.calls[i][2] # None)
             => \E i \in LookupsMade : bot_user_id' = last'.result.calls[i][2]]_vars

\* a message mentioning U1 was handled with U1 cached while auth.test would
\* have answered U2: no lookup was made and the message was translated
C35_Witness ==
    /\ LastIsNewMessage /\ config.TRANSLATE_TRIGGER = "mention"
    /\ last.cache_before = <<"U", "1">>
    /\ last.env.auth = <<"U", "2">>
    /\ bot_user_id = <<"U", "1">>
    /\ LastCalls("auth.test") = {}
    /\ LastEvent.text = MENTIONING
    /\ \E i \in LastCalls("translate") : last.result.calls[i][2] = HI

----------------------------------------------------------------------------
(* Claims about the resolver's tokens (SpecResolve) *)

\* the thread-replies and parent-discovery history calls of the resolution
ElevatedCalls ==
    {i \in 1..Len(ResolveCalls) :
        \/ ResolveCalls[i][1] = "conversations.replies"
        \/ i \in DiscoveryCalls}

\* C36: thread-replies lookups and parent-discovery history calls carry the
\* user token whenever one is configured and the bot token otherwise; without
\* a bot token the resolution makes no remote call and returns NotFound.
C36_ElevatedToken ==
    resolveOut.done =>
        /\ \A i \in ElevatedCalls :
              ResolveCalls[i][2] =
                  IF resolveIn.cfg.SLACK_USER_TOKEN # ""
                  THEN resolveIn.cfg.SLACK_USER_TOKEN
                  ELSE resolveIn.cfg.SLACK_BOT_TOKEN
        /\ resolveIn.cfg.SLACK_BOT_TOKEN = "" =>
              /\ ResolveCalls = <<>>
              /\ resolveOut.result.text = None
              /\ resolveOut.result.reply_thread_ts = Null

\* with both tokens configured, a thread scan and a discovery history call
\* were made with the user token after the exact query with the bot token
C36_Witness ==
    /\ resolveOut.done
    /\ resolveIn.cfg.SLACK_USER_TOKEN = "xoxp"
    /\ resolveIn.cfg.SLACK_BOT_TOKEN = "xoxb"
    /\ ResolveCalls[1][2] = "xoxb"
    /\ \E i \in DiscoveryCalls : ResolveCalls[i][2] = "xoxp"
    /\ \E i \in CandidateCalls : ResolveCalls[i][2] = "xoxp"
    /\ resolveOut.result.text # None

\* only a user token is configured: nothing was called
NoBotTokenNoCall ==
    /\ resolveOut.done
    /\ resolveIn.cfg.SLACK_USER_TOKEN = "xoxp"
    /\ resolveIn.cfg.SLACK_BOT_TOKEN = ""
    /\ ResolveCalls = <<>>

----------------------------------------------------------------------------
(* Claims about repeated reactions (SpecReaction) *)

\* the ledger keys of reacted messages: (channel, message timestamp)
ReactedKeys == {k \in DOMAIN stats : Len(k) = 2}

\* C37: in reaction mode, the reaction_added events on one message (same
\* channel and message timestamp), whoever reacts and in whatever order,
\* lead to at most one resolution and at most one reply while the message's
\* key stays in the ledger, also when the first attempt failed to resolve,
\* to translate or to post.
C37_OneAttemptPerReactedMessage ==
    \A k \in ReactedKeys \ evicted :
        stats[k].resolves <= 1 /\ stats[k].posts <= 1

\* a reaction on a message was delivered twice: the first delivery failed to
\* resolve the message, the second did nothing
C37_Witness ==
    /\ LastIsReaction /\ ReactionKey \in ReactedKeys
    /\ stats[ReactionKey].checks = 2
    /\ stats[ReactionKey].misses = 1
    /\ stats[ReactionKey].resolves = 1
    /\ stats[ReactionKey].translated = 0
    /\ stats[ReactionKey].posts = 0
    /\ last.result.calls = <<>>

----------------------------------------------------------------------------
(* Claims about the resolver's termination (SpecResolve) *)

\* the exact-timestamp queries of the resolution
ExactCalls ==
    {i \in 1..Len(ResolveCalls) :
        ResolveCalls[i][1] = "conversations.history" /\ ResolveCalls[i][4] = 0}

\* the thread-replies calls made before parent discovery
EarlyScanCalls ==
    {i \in 1..Len(ResolveCalls) : ResolveCalls[i][1] = "conversations.replies"}
        \ CandidateCalls

\* those of the scan anchored at the target
DirectCalls == {i \in EarlyScanCalls : ResolveCalls[i][3] = "111.001"}

\* those of the scan anchored at the hint
HintCalls == EarlyScanCalls \ DirectCalls

\* the result is a text with a reply anchor, or NotFound
WellFormedResult ==
    \/ resolveOut.result.text = None /\ resolveOut.result.reply_thread_ts = Null
    \/ resolveOut.result.text # None /\ IsSet(resolveOut.result.reply_thread_ts)

\* the numbers of calls a resolution may make, and of HTTP requests a call
\* may make: two only when the POST was answered with invalid_arguments
CallsBounded ==
    /\ Cardinality(ExactCalls) <= 1
    /\ Cardinality(DirectCalls) <= 1
    /\ Cardinality(HintCalls) <= 4
    /\ Cardinality(DiscoveryCalls) <= 4
    /\ Cardinality(ScanStarts) <= 30
    /\ Cardinality(CandidateCalls) <= 30 * 4
    /\ \A i \in CandidateCalls : ResolveCalls[i][4] <= 4
    /\ \A i \in 1..Len(ResolveCalls) :
          ResolveCalls[i][6] = IF Sent(i).status = "invalid_arguments" THEN 2 ELSE 1

\* C38: a call of the resolver ends with a text and an anchor or with
\* NotFound, after at most 1 exact query, 1 page of the scan anchored at the
\* target, 4 pages of the scan anchored at the hint, 4 discovery history
\* pages and 30 x 4 pages of candidates' threads, whatever Slack answers
\* (cursors without end included), each call being tried a second time at
\* most once, by GET, on invalid_arguments.
C38_ResolverTerminates ==
    resolveOut.done => (WellFormedResult /\ CallsBounded)

\* against cursors without end the resolution made all 130 calls it may
\* make and returned NotFound
C38_Witness ==
    /\ resolveOut.done
    /\ resolveIn.api.replies = EndlessThreads
    /\ resolveIn.api.history = EndlessHistory
    /\ Len(ResolveCalls) = 1 + 1 + 4 + 4 + 30 * 4
    /\ Cardinality(HintCalls) = 4
    /\ resolveOut.result.text = None
====
